---- MODULE Spec2Model ----
(***************************************************************************)
(* Recipe Cost API (src/index.js): the Express application with its        *)
(* middleware stack, the Joi request validation, the cost calculation and  *)
(* the recipe collection with its unique index on recipe_name.             *)
(*                                                                         *)
(* JavaScript numbers are IEEE-754 binary64 values.  They are modelled     *)
(* bit-exactly: a finite number is sign * m * 2^e with a mantissa m below  *)
(* 2^53, and +, -, *, / round to nearest, ties to even.  TLC's integers    *)
(* are 32 bits wide, so mantissas are kept as little-endian sequences of   *)
(* 14-bit limbs.  Overflow to Infinity and subnormal results lie outside   *)
(* the magnitudes the model draws its inputs from.                         *)
(***************************************************************************)
EXTENDS Integers, Sequences, FiniteSets, TLC

(***************************************************************************)
(* Natural numbers of arbitrary size, as limb sequences                    *)
(***************************************************************************)
LimbBits == 7 + 7
BASE == 2^LimbBits

RECURSIVE BNorm(_)
BNorm(a) ==
  IF a = <<>> THEN a
  ELSE IF a[Len(a)] = 0 THEN BNorm(SubSeq(a, 1, Len(a) - 1)) ELSE a

RECURSIVE BFromInt(_)
BFromInt(n) == IF n = 0 THEN <<>> ELSE <<n % BASE>> \o BFromInt(n \div BASE)

RECURSIVE BToInt(_)
BToInt(a) == IF a = <<>> THEN 0 ELSE a[1] + BASE * BToInt(Tail(a))

Limb(a, i) == IF i <= Len(a) THEN a[i] ELSE 0

RECURSIVE BAddFrom(_, _, _, _)
BAddFrom(a, b, i, c) ==
  IF i > Len(a) /\ i > Len(b)
  THEN (IF c = 0 THEN <<>> ELSE <<c>>)
  ELSE LET t == Limb(a, i) + Limb(b, i) + c
       IN  <<t % BASE>> \o BAddFrom(a, b, i + 1, t \div BASE)

BAdd(a, b) == BAddFrom(a, b, 1, 0)

RECURSIVE BSubFrom(_, _, _, _)
BSubFrom(a, b, i, c) ==
  IF i > Len(a) THEN <<>>
  ELSE LET t == a[i] - Limb(b, i) - c
       IN  IF t < 0 THEN <<t + BASE>> \o BSubFrom(a, b, i + 1, 1)
                    ELSE <<t>> \o BSubFrom(a, b, i + 1, 0)

\* a - b for a >= b
BSub(a, b) == BNorm(BSubFrom(a, b, 1, 0))

RECURSIVE BCmpFrom(_, _, _)
BCmpFrom(a, b, i) ==
  IF i = 0 THEN 0
  ELSE IF a[i] > b[i] THEN 1
  ELSE IF a[i] < b[i] THEN -1
  ELSE BCmpFrom(a, b, i - 1)

\* -1, 0, 1 as a < b, a = b, a > b
BCmp(a, b) ==
  IF Len(a) > Len(b) THEN 1
  ELSE IF Len(a) < Len(b) THEN -1
  ELSE BCmpFrom(a, b, Len(a))

RECURSIVE BMulSmallFrom(_, _, _, _)
BMulSmallFrom(a, k, i, c) ==
  IF i > Len(a) THEN (IF c = 0 THEN <<>> ELSE <<c>>)
  ELSE LET t == a[i] * k + c
       IN  <<t % BASE>> \o BMulSmallFrom(a, k, i + 1, t \div BASE)

\* a * k for 0 <= k < 2^16
BMulSmall(a, k) == IF k = 0 THEN <<>> ELSE BMulSmallFrom(a, k, 1, 0)

BShlLimbs(a, n) == IF a = <<>> THEN a ELSE [i \in 1..n |-> 0] \o a

RECURSIVE BMul(_, _)
BMul(a, b) ==
  IF a = <<>> \/ b = <<>> THEN <<>>
  ELSE BAdd(BMulSmall(a, b[1]), BShlLimbs(BMul(a, Tail(b)), 1))

RECURSIVE BDivSmallFrom(_, _, _, _)
BDivSmallFrom(a, k, i, r) ==
  IF i = 0 THEN [q |-> <<>>, r |-> r]
  ELSE LET t    == r * BASE + a[i]
           rest == BDivSmallFrom(a, k, i - 1, t % k)
       IN  [q |-> rest.q \o <<t \div k>>, r |-> rest.r]

\* quotient and remainder of a by k, 0 < k <= 2^16
BDivSmall(a, k) ==
  LET d == BDivSmallFrom(a, k, Len(a), 0) IN [q |-> BNorm(d.q), r |-> d.r]

\* a * 2^n
BShl(a, n) == BShlLimbs(BMulSmall(a, 2^(n % LimbBits)), n \div LimbBits)

\* floor(a / 2^n)
BShr(a, n) ==
  IF n \div LimbBits >= Len(a) THEN <<>>
  ELSE BDivSmall(SubSeq(a, n \div LimbBits + 1, Len(a)), 2^(n % LimbBits)).q

RECURSIVE IntBitLen(_)
IntBitLen(n) == IF n = 0 THEN 0 ELSE 1 + IntBitLen(n \div 2)

BBitLen(a) == IF a = <<>> THEN 0 ELSE LimbBits * (Len(a) - 1) + IntBitLen(a[Len(a)])

BIsOdd(a) == a # <<>> /\ a[1] % 2 = 1

RECURSIVE BDigitFrom(_, _, _, _)
BDigitFrom(r, b, bit, d) ==
  IF bit < 0 THEN d
  ELSE IF BCmp(BMulSmall(b, d + 2^bit), r) <= 0
  THEN BDigitFrom(r, b, bit - 1, d + 2^bit)
  ELSE BDigitFrom(r, b, bit - 1, d)

\* the largest d < BASE with d * b <= r
BDigit(r, b) == BDigitFrom(r, b, LimbBits - 1, 0)

\* one step of the long division: the digit d of the quotient for the
\* running remainder r, put before the digits q found so far
BDivPut(q, r, b, d) == [q |-> <<d>> \o q, r |-> BSub(r, BMulSmall(b, d))]

BDivStep(q, r, b) == BDivPut(q, r, b, BDigit(r, b))

\* hi: quotient and remainder of the limbs above; limb: the next limb down
BDivLimb(hi, limb, b) == BDivStep(hi.q, BNorm(<<limb>> \o hi.r), b)

RECURSIVE BDivModFrom(_, _, _)
BDivModFrom(a, b, i) ==
  IF i > Len(a) THEN [q |-> <<>>, r |-> <<>>]
  ELSE BDivLimb(BDivModFrom(a, b, i + 1), a[i], b)

\* quotient (with leading zero limbs) and remainder of a by b, b > 0
\* (long division, limb by limb)
BDivMod(a, b) == BDivModFrom(a, b, 1)

(***************************************************************************)
(* IEEE-754 binary64: the JavaScript Number type.  A finite number is      *)
(* (-1)^s * m * 2^e with m odd and below 2^53 (m empty for zero); the sign *)
(* of zero is not kept, no response of the program shows it.               *)
(***************************************************************************)
MantBits == 53

FZero == [k |-> "fin", s |-> 0, m |-> <<>>, e |-> 0]
FNaN  == [k |-> "nan", s |-> 0, m |-> <<>>, e |-> 0]
FInf(s) == [k |-> "inf", s |-> s, m |-> <<>>, e |-> 0]

FIsZero(x) == x.k = "fin" /\ x.m = <<>>

RECURSIVE IntTrailingZeros(_)
IntTrailingZeros(n) == IF n % 2 = 1 THEN 0 ELSE 1 + IntTrailingZeros(n \div 2)

RECURSIVE BTrailingZeros(_)
BTrailingZeros(a) ==
  IF a[1] = 0 THEN LimbBits + BTrailingZeros(Tail(a)) ELSE IntTrailingZeros(a[1])

\* (-1)^s * n * 2^e, n below 2^54, with the mantissa made odd
Canon(s, n, e) ==
  IF n = <<>> THEN FZero
  ELSE [k |-> "fin", s |-> s, m |-> BShr(n, BTrailingZeros(n)), e |-> e + BTrailingZeros(n)]

\* n of more than 53 bits rounded to 53: r is n without its last sh - 1
\* bits, the mantissa followed by the guard bit; the mantissa goes up when
\* the guard bit is set and a later bit is set or the mantissa is odd
RoundGuard(s, n, e, r, sh) ==
  Canon(s,
        BDivSmall(IF BIsOdd(r) /\ (BShl(r, sh - 1) # n \/ (r[1] \div 2) % 2 = 1)
                  THEN BAdd(r, <<1>>) ELSE r, 2).q,
        e)

RoundTo(s, n, e, sh) == RoundGuard(s, n, e + sh, BShr(n, sh - 1), sh)

\* the binary64 value nearest to (-1)^s * n * 2^e, ties to even
Round53(s, n, e) ==
  IF BBitLen(n) <= MantBits THEN Canon(s, n, e) ELSE RoundTo(s, n, e, BBitLen(n) - MantBits)

FFromInt(n) == Canon(IF n < 0 THEN 1 ELSE 0, BFromInt(IF n < 0 THEN -n ELSE n), 0)

FNeg(x) == IF x.k = "nan" \/ FIsZero(x) THEN x ELSE [x EXCEPT !.s = 1 - x.s]

\* x * y
FMul(x, y) ==
  IF x.k = "nan" \/ y.k = "nan" THEN FNaN
  ELSE IF x.k = "inf" \/ y.k = "inf"
  THEN (IF FIsZero(x) \/ FIsZero(y) THEN FNaN ELSE FInf((x.s + y.s) % 2))
  ELSE Round53((x.s + y.s) % 2, BMul(x.m, y.m), x.e + y.e)

\* the position of the leading bit of a finite x # 0: 2^(Top(x) - 1) <= |x| < 2^Top(x)
Top(x) == x.e + BBitLen(x.m)

\* (-1)^xs * xm + (-1)^ys * ym, times 2^e, rounded
AddAligned(xs, xm, ys, ym, e) ==
  Round53(IF xs = ys \/ BCmp(xm, ym) >= 0 THEN xs ELSE ys,
          IF xs = ys THEN BAdd(xm, ym)
          ELSE IF BCmp(xm, ym) >= 0 THEN BSub(xm, ym) ELSE BSub(ym, xm),
          e)

\* the mantissas of x and y brought to the exponent e
AddAt(x, y, e) == AddAligned(x.s, BShl(x.m, x.e - e), y.s, BShl(y.m, y.e - e), e)

\* x + y
FAdd(x, y) ==
  IF x.k = "nan" \/ y.k = "nan" THEN FNaN
  ELSE IF x.k = "inf"
  THEN (IF y.k = "inf" /\ y.s # x.s THEN FNaN ELSE x)
  ELSE IF y.k = "inf" THEN y
  ELSE IF FIsZero(x) THEN y
  ELSE IF FIsZero(y) THEN x
  ELSE IF Top(x) - Top(y) > MantBits + 2 THEN x
  ELSE IF Top(y) - Top(x) > MantBits + 2 THEN y
  ELSE AddAt(x, y, IF x.e < y.e THEN x.e ELSE y.e)

\* x - y
FSub(x, y) == FAdd(x, FNeg(y))

\* the quotient d.q with its last bit set when the division leaves a remainder
DivRounded(s, d, e) ==
  Round53(s, BAdd(BMulSmall(BNorm(d.q), 2), IF d.r = <<>> THEN <<>> ELSE <<1>>), e)

\* x.m * 2^sh divided by y.m
DivShifted(x, y, sh) ==
  DivRounded((x.s + y.s) % 2, BDivMod(BShl(x.m, sh), y.m), x.e - y.e - sh - 1)

\* x / y: the quotient of the mantissas to 56 bits or more
FDiv(x, y) ==
  IF x.k = "nan" \/ y.k = "nan" THEN FNaN
  ELSE IF x.k = "inf" THEN (IF y.k = "inf" THEN FNaN ELSE FInf((x.s + y.s) % 2))
  ELSE IF y.k = "inf" THEN FZero
  ELSE IF FIsZero(y) THEN (IF FIsZero(x) THEN FNaN ELSE FInf((x.s + y.s) % 2))
  ELSE IF FIsZero(x) THEN FZero
  ELSE DivShifted(x, y, IF MantBits + 3 + BBitLen(y.m) > BBitLen(x.m)
                        THEN MantBits + 3 + BBitLen(y.m) - BBitLen(x.m) ELSE 0)

\* the decimal literal n / 10^d as JSON.parse reads it: the nearest binary64
Dec(n, d) == FDiv(FFromInt(n), FFromInt(10^d))

\* x >= 0 in place of x > 0
FPositiveOrZero(x) == x.k # "nan" /\ (x.s = 0 \/ FIsZero(x))

\* x > 0
FPositive(x) == x.s = 0 /\ (x.k = "inf" \/ (x.k = "fin" /\ ~FIsZero(x)))

\* x >= 0
FNonNegative(x) == FPositive(x) \/ FIsZero(x)

\* x >= 1
FAtLeastOne(x) == FPositive(x) /\ (x.k = "inf" \/ Top(x) >= 1)

\* Number.isSafeInteger(x)
FIsSafeInteger(x) == x.k = "fin" /\ (FIsZero(x) \/ (x.e >= 0 /\ Top(x) <= MantBits))

\* |x| > Number.MAX_SAFE_INTEGER
FUnsafe(x) == x.k = "fin" /\ ~FIsZero(x) /\ Top(x) > MantBits

\* floor((n + 2^(f - 1)) / 2^f): n / 2^f to the nearest integer, halves upwards
HalfUp(n, f) ==
  IF f > BBitLen(n) + 1 THEN <<>> ELSE BShr(BAdd(n, BShl(<<1>>, f - 1)), f)

\* ceiling((n - 2^(f - 1)) / 2^f): n / 2^f to the nearest integer, halves downwards
HalfDown(n, f) ==
  IF f > BBitLen(n) + 1 \/ BCmp(n, BShl(<<1>>, f - 1)) <= 0 THEN <<>>
  ELSE BAdd(BShr(BSub(n, BAdd(BShl(<<1>>, f - 1), <<1>>)), f), <<1>>)

\* Math.round(x): the nearest integer, ties towards +Infinity
MathRound(x) ==
  IF x.k # "fin" \/ FIsZero(x) \/ x.e >= 0 THEN x
  ELSE Canon(x.s, IF x.s = 0 THEN HalfUp(x.m, -x.e) ELSE HalfDown(x.m, -x.e), 0)

\* a number of hundredths, signed
Cents(s, n) == [null |-> FALSE, c |-> IF s = 1 THEN -BToInt(n) ELSE BToInt(n)]

\* +x.toFixed(2) as JSON.stringify prints it: a whole number of hundredths,
\* or null for NaN and the infinities.  toFixed takes the n for which
\* n / 100 - |x| is closest to zero, the larger n of two, and keeps the sign.
ToFixed2(x) ==
  IF x.k # "fin" THEN [null |-> TRUE, c |-> 0]
  ELSE IF FIsZero(x) THEN [null |-> FALSE, c |-> 0]
  ELSE Cents(x.s, IF x.e >= 0 THEN BShl(BMulSmall(x.m, 100), x.e)
                  ELSE HalfUp(BMulSmall(x.m, 100), -x.e))

(***************************************************************************)
(* JSON values of a request.  Strings are sequences of characters.  A      *)
(* member of an object is absent, of the expected JSON type, or of         *)
(* another type ("other": a value Joi cannot convert to the expected one). *)
(***************************************************************************)
NoString == <<>>

JAbsentStr == [t |-> "absent", v |-> NoString]
JOtherStr  == [t |-> "other", v |-> NoString]
JStr(v)    == [t |-> "str", v |-> v]

JAbsentNum == [t |-> "absent", n |-> FZero]
JOtherNum  == [t |-> "other", n |-> FZero]
JNum(x)    == [t |-> "num", n |-> x]

JAbsentArr == [t |-> "absent", items |-> <<>>]
JOtherArr  == [t |-> "other", items |-> <<>>]
JArr(a)    == [t |-> "array", items |-> a]

\* one Joi error detail: the key it is about, the index of the ingredient
\* (0 outside the ingredients array) and Joi's error type
Detail(key, idx, type) == [key |-> key, idx |-> idx, type |-> type]

(***************************************************************************)
(* Joi schemas                                                             *)
(***************************************************************************)
\* Joi.string().required()
StringRequired(j, key, idx) ==
  IF j.t = "absent" THEN <<Detail(key, idx, "any.required")>>
  ELSE IF j.t = "other" THEN <<Detail(key, idx, "string.base")>>
  ELSE IF j.v = NoString THEN <<Detail(key, idx, "string.empty")>>
  ELSE <<>>

\* Joi.number().precision(4) under convert: Math.round(value * 10^4) / 10^4
Precision4(x) == FDiv(MathRound(FMul(x, FFromInt(10^4))), FFromInt(10^4))

\* a number schema without rules
RuleNeverFails(rule, v) == FALSE

\* the rules of a Joi.number() schema, in their order; rules is a sequence
\* of rule names among "integer", "positive", "min0", "min1"
RuleFails(rule, v) ==
  CASE rule = "integer"  -> ~FIsSafeInteger(v)
    [] rule = "positive" -> ~FPositive(v)
    [] rule = "min0"     -> ~FNonNegative(v)
    [] rule = "min1"     -> ~FAtLeastOne(v)

RuleType(rule) ==
  CASE rule = "integer"  -> "number.integer"
    [] rule = "positive" -> "number.positive"
    [] rule = "min0"     -> "number.min"
    [] rule = "min1"     -> "number.min"

RECURSIVE NumberRules(_, _, _, _)
NumberRules(v, rules, key, idx) ==
  IF rules = <<>> THEN <<>>
  ELSE (IF RuleFails(Head(rules), v) THEN <<Detail(key, idx, RuleType(Head(rules)))>> ELSE <<>>)
       \o NumberRules(v, Tail(rules), key, idx)

\* Joi.number(): the base checks on the JSON value j, then the rules on the
\* converted value v (j.n, or j.n rounded by precision)
NumberSchema(j, v, required, rules, key, idx) ==
  IF j.t = "absent"
  THEN (IF required THEN <<Detail(key, idx, "any.required")>> ELSE <<>>)
  ELSE IF j.t = "other" \/ j.n.k = "nan" THEN <<Detail(key, idx, "number.base")>>
  ELSE IF j.n.k = "inf" THEN <<Detail(key, idx, "number.infinity")>>
  ELSE IF FUnsafe(j.n) THEN <<Detail(key, idx, "number.unsafe")>>
  ELSE NumberRules(v, rules, key, idx)

\* a validation result: the error details (none: the value is valid) and
\* the converted value
Validated(details, value) == [details |-> details, value |-> value]

\* ingredientSchema on the item at index idx of the array; unit_cost is the
\* item's unit_cost as .precision(4) converts it
IngredientValidated(item, idx, unit_cost) ==
  Validated(
    StringRequired(item.name, "ingredients.name", idx)
    \o NumberSchema(item.quantity, item.quantity.n, TRUE, <<"positive">>,
                    "ingredients.quantity", idx)
    \o StringRequired(item.unit, "ingredients.unit", idx)
    \o NumberSchema(item.unit_cost, unit_cost, TRUE, <<"min0">>, "ingredients.unit_cost", idx),
    [name |-> item.name.v, quantity |-> item.quantity.n, unit |-> item.unit.v,
     unit_cost |-> unit_cost])

ingredientSchema(item, idx) == IngredientValidated(item, idx, Precision4(item.unit_cost.n))

RECURSIVE AllDetails(_)
\* the details of a sequence of validation results, in order
AllDetails(results) ==
  IF results = <<>> THEN <<>> ELSE Head(results).details \o AllDetails(Tail(results))

\* Joi.array().items(ingredientSchema).min(1).required(), from the results of the items
ArrayValidated(j, results) ==
  Validated(
    IF j.t = "absent" THEN <<Detail("ingredients", 0, "any.required")>>
    ELSE IF j.t = "other" THEN <<Detail("ingredients", 0, "array.base")>>
    ELSE AllDetails(results)
         \o (IF Len(j.items) < 1 THEN <<Detail("ingredients", 0, "array.min")>> ELSE <<>>),
    [i \in 1..Len(j.items) |-> results[i].value])

IngredientsSchema(j) ==
  ArrayValidated(j, [i \in 1..Len(j.items) |-> ingredientSchema(j.items[i], i)])

\* the object schema, from the result of its ingredients key;
\* markup_multiplier is a sequence of at most one number
ObjectValidated(body, ingredients) ==
  Validated(
    StringRequired(body.recipe_name, "recipe_name", 0)
    \o NumberSchema(body.servings, body.servings.n, TRUE, <<"integer", "min1">>, "servings", 0)
    \o ingredients.details
    \o NumberSchema(body.markup_multiplier, body.markup_multiplier.n, FALSE, <<"positive">>,
                    "markup_multiplier", 0)
    \o (IF body.unknown THEN <<Detail("unknown", 0, "object.unknown")>> ELSE <<>>),
    [recipe_name       |-> body.recipe_name.v,
     servings          |-> body.servings.n,
     ingredients       |-> ingredients.value,
     markup_multiplier |-> IF body.markup_multiplier.t = "absent" THEN <<>>
                           ELSE <<body.markup_multiplier.n>>])

\* calculateCostSchema.validate(body, { abortEarly: false }): error.details and value
calculateCostSchema(body) == ObjectValidated(body, IngredientsSchema(body.ingredients))

\* saveRecipeSchema = calculateCostSchema
saveRecipeSchema(body) == calculateCostSchema(body)

\* nameParamSchema: Joi.string().required() on req.params.name
nameParamSchema(name) == StringRequired(JStr(name), "name", 0)

(***************************************************************************)
(* Responses and errors                                                    *)
(***************************************************************************)
\* a response: the status, and of the JSON body whatever the handler puts
\* there (error: one message; details: Joi messages; calc: the calculation;
\* docs: the recipe or the page of recipes; total, page, pages: the list's)
BlankResponse ==
  [status |-> 0, error |-> "", details |-> <<>>, message |-> "", calc |-> <<>>,
   docs |-> <<>>, total |-> 0, page |-> 0, pages |-> 0]

Json(status)              == [BlankResponse EXCEPT !.status = status]
JsonError(status, error)  == [BlankResponse EXCEPT !.status = status, !.error = error]
JsonDetails(details)      == [BlankResponse EXCEPT !.status = 400, !.details = details]
JsonMessage(status, msg)  == [BlankResponse EXCEPT !.status = status, !.message = msg]

\* an error object passed to next(err)
Err(code, isJoi, status, message) ==
  [code |-> code, isJoi |-> isJoi, status |-> status, message |-> message]

DuplicateKeyCode == 11000

\* E11000 duplicate key error of the unique index on recipe_name
DuplicateKeyError == Err(DuplicateKeyCode, FALSE, 0, "E11000 duplicate key error")

\* the errors express.json passes on: a body that is not JSON, a body over the limit
ParseFailed   == Err(0, FALSE, 400, "Unexpected token in JSON")
EntityTooLarge == Err(0, FALSE, 413, "request entity too large")

\* an error handler that does not look at err.status
errorHandlerWithoutStatus(err) ==
  IF err.code = DuplicateKeyCode THEN JsonError(409, "Recipe name already exists.")
  ELSE IF err.isJoi THEN Json(400)
  ELSE JsonError(500, IF err.message # "" THEN err.message ELSE "Internal server error")

\* an error handler that does not look at err.code
errorHandlerWithoutCode(err) ==
  IF err.isJoi THEN Json(400)
  ELSE JsonError(IF err.status # 0 THEN err.status ELSE 500,
                 IF err.message # "" THEN err.message ELSE "Internal server error")

\* the centralized error handler
errorHandler(err) ==
  IF err.code = DuplicateKeyCode THEN JsonError(409, "Recipe name already exists.")
  ELSE IF err.isJoi THEN Json(400)
  ELSE JsonError(IF err.status # 0 THEN err.status ELSE 500,
                 IF err.message # "" THEN err.message ELSE "Internal server error")

\* the 404 handler for unknown routes
notFoundHandler == JsonError(404, "Not found")

(***************************************************************************)
(* POST /calculate-cost                                                    *)
(***************************************************************************)
RECURSIVE Reduce(_, _, _)
Reduce(ingredients, i, sum) ==
  IF i > Len(ingredients) THEN sum
  ELSE Reduce(ingredients, i + 1,
              FAdd(sum, FMul(ingredients[i].quantity, ingredients[i].unit_cost)))

\* a reduce that begins at the second ingredient
TotalCostOfRest(ingredients) == Reduce(ingredients, 2, FZero)

\* ingredients.reduce((sum, i) => sum + i.quantity * i.unit_cost, 0)
TotalCost(ingredients) == Reduce(ingredients, 1, FZero)

\* the division of the total rounded to 2 decimals
CostPerServingOfRounded(totalCost, servings) ==
  FDiv(FDiv(FFromInt(ToFixed2(totalCost).c), FFromInt(100)), servings)

\* totalCost / servings
CostPerServing(totalCost, servings) == FDiv(totalCost, servings)

\* markup_multiplier || 1
MultiplierOrOne(markup_multiplier) ==
  IF markup_multiplier = <<>> \/ FIsZero(markup_multiplier[1]) \/ markup_multiplier[1].k = "nan"
  THEN FFromInt(1)
  ELSE markup_multiplier[1]

\* markup_multiplier || 3
Multiplier(markup_multiplier) ==
  IF markup_multiplier = <<>> \/ FIsZero(markup_multiplier[1]) \/ markup_multiplier[1].k = "nan"
  THEN FFromInt(3)
  ELSE markup_multiplier[1]

\* a price that adds the multiplier to the cost
SuggestedPriceAdded(costPerServing, multiplier) == FAdd(costPerServing, multiplier)

\* costPerServing * multiplier
SuggestedPrice(costPerServing, multiplier) == FMul(costPerServing, multiplier)

\* the difference of the two figures as the response prints them
ProfitMarginOfPrinted(suggestedPrice, costPerServing) ==
  FSub(FDiv(FFromInt(ToFixed2(suggestedPrice).c), FFromInt(100)),
       FDiv(FFromInt(ToFixed2(costPerServing).c), FFromInt(100)))

\* suggestedPrice - costPerServing
ProfitMargin(suggestedPrice, costPerServing) == FSub(suggestedPrice, costPerServing)

\* the ratio, not made a percentage
FoodCostRatio(costPerServing, suggestedPrice) == FDiv(costPerServing, suggestedPrice)

\* (costPerServing / suggestedPrice) * 100
FoodCostPct(costPerServing, suggestedPrice) ==
  FMul(FDiv(costPerServing, suggestedPrice), FFromInt(100))

\* res.json({ recipe_name, total_cost: +totalCost.toFixed(2), ... })
ResultJson(recipe_name, totalCost, costPerServing, suggestedPrice, profitMargin, foodCostPct) ==
  [recipe_name                 |-> recipe_name,
   total_cost                  |-> ToFixed2(totalCost),
   cost_per_serving            |-> ToFixed2(costPerServing),
   suggested_price_per_serving |-> ToFixed2(suggestedPrice),
   profit_margin_per_serving   |-> ToFixed2(profitMargin),
   food_cost_percent           |-> ToFixed2(foodCostPct)]

\* the figures that follow from the suggested price
Priced(recipe_name, totalCost, costPerServing, suggestedPrice) ==
  ResultJson(recipe_name, totalCost, costPerServing, suggestedPrice,
             ProfitMargin(suggestedPrice, costPerServing),
             FoodCostPct(costPerServing, suggestedPrice))

\* the figures that follow from the cost per serving
Served(recipe_name, totalCost, costPerServing, multiplier) ==
  Priced(recipe_name, totalCost, costPerServing, SuggestedPrice(costPerServing, multiplier))

\* the figures that follow from the total cost
Totalled(value, totalCost) ==
  Served(value.recipe_name, totalCost, CostPerServing(totalCost, value.servings),
         Multiplier(value.markup_multiplier))

\* the calculation on the validated value
CalculationResult(value) == Totalled(value, TotalCost(value.ingredients))

\* the response, from the result of the validation
CalculateCostResponse(validated) ==
  IF validated.details # <<>> THEN JsonDetails(validated.details)
  ELSE [Json(200) EXCEPT !.calc = <<CalculationResult(validated.value)>>]

\* the handler's response
calculateCost(body) == CalculateCostResponse(calculateCostSchema(body))

(***************************************************************************)
(* The recipe collection (Mongoose model Recipe)                           *)
(***************************************************************************)
\* new Recipe(value): the document of the schema's paths; markup_multiplier
\* is no path of recipeSchema and is dropped
RecipeDoc(value) ==
  [recipe_name |-> value.recipe_name,
   servings    |-> value.servings,
   ingredients |-> value.ingredients]

\* the positions of the documents with this recipe_name
Positions(coll, name) == {i \in 1..Len(coll) : coll[i].recipe_name = name}

\* the first matching position, 0 if none
FirstPosition(coll, name) ==
  IF Positions(coll, name) = {} THEN 0
  ELSE CHOOSE i \in Positions(coll, name) : \A j \in Positions(coll, name) : i <= j

\* a collection without the unique index
NoUniqueIndex(coll, name, at) == TRUE

\* the unique index on recipe_name: may a document named name be written
\* at position at (0: a new document)?
UniqueIndexAllows(coll, name, at) == Positions(coll, name) \subseteq {at}

\* a removal that takes the documents after position at along
RemoveFrom(coll, at) == SubSeq(coll, 1, at - 1)

RemoveAt(coll, at) == [i \in 1..(Len(coll) - 1) |-> IF i < at THEN coll[i] ELSE coll[i + 1]]

\* a save that does not meet the unique index
SaveUnchecked(coll, doc) == [err |-> <<>>, coll |-> Append(coll, doc), doc |-> <<doc>>]

\* recipe.save(): the outcome [err, coll, doc]
Save(coll, doc) ==
  IF UniqueIndexAllows(coll, doc.recipe_name, 0)
  THEN [err |-> <<>>, coll |-> Append(coll, doc), doc |-> <<doc>>]
  ELSE [err |-> <<DuplicateKeyError>>, coll |-> coll, doc |-> <<>>]

\* a findOne that takes name for the beginning of the recipe_name
FindOneBeginning(coll, name) ==
  LET hits == {i \in 1..Len(coll) :
                 /\ Len(name) <= Len(coll[i].recipe_name)
                 /\ SubSeq(coll[i].recipe_name, 1, Len(name)) = name}
  IN  IF hits = {} THEN <<>> ELSE <<coll[CHOOSE i \in hits : \A j \in hits : i <= j]>>

\* Recipe.findOne({ recipe_name: name })
FindOne(coll, name) ==
  IF FirstPosition(coll, name) = 0 THEN <<>> ELSE <<coll[FirstPosition(coll, name)]>>

\* an update with { upsert: true }: a missing name is inserted
FindOneAndUpsert(coll, name, value) ==
  LET at == FirstPosition(coll, name) IN
  IF ~UniqueIndexAllows(coll, value.recipe_name, at)
  THEN [err |-> <<DuplicateKeyError>>, coll |-> coll, doc |-> <<>>]
  ELSE IF at = 0
  THEN [err |-> <<>>, coll |-> Append(coll, RecipeDoc(value)), doc |-> <<RecipeDoc(value)>>]
  ELSE [err |-> <<>>, coll |-> [coll EXCEPT ![at] = RecipeDoc(value)],
        doc |-> <<RecipeDoc(value)>>]

\* the document with the ingredients of value pushed after its own
Pushed(doc, value) ==
  [recipe_name |-> value.recipe_name, servings |-> value.servings,
   ingredients |-> doc.ingredients \o value.ingredients]

\* an update that pushes the ingredients instead of setting them
FindOneAndPush(coll, name, value) ==
  LET at == FirstPosition(coll, name) IN
  IF at = 0 THEN [err |-> <<>>, coll |-> coll, doc |-> <<>>]
  ELSE IF ~UniqueIndexAllows(coll, value.recipe_name, at)
  THEN [err |-> <<DuplicateKeyError>>, coll |-> coll, doc |-> <<>>]
  ELSE [err |-> <<>>, coll |-> [coll EXCEPT ![at] = Pushed(coll[at], value)],
        doc |-> <<Pushed(coll[at], value)>>]

\* an update that sets the servings and the ingredients and keeps the name
FindOneAndKeepName(coll, name, value) ==
  LET at == FirstPosition(coll, name) IN
  IF at = 0 THEN [err |-> <<>>, coll |-> coll, doc |-> <<>>]
  ELSE [err |-> <<>>,
        coll |-> [coll EXCEPT ![at] = [RecipeDoc(value) EXCEPT !.recipe_name = name]],
        doc |-> <<[RecipeDoc(value) EXCEPT !.recipe_name = name]>>]

\* Recipe.findOneAndUpdate({ recipe_name: name }, value, { new: true, runValidators: true }):
\* the update sets the schema's paths present in value
FindOneAndUpdate(coll, name, value) ==
  LET at == FirstPosition(coll, name) IN
  IF at = 0 THEN [err |-> <<>>, coll |-> coll, doc |-> <<>>]
  ELSE IF ~UniqueIndexAllows(coll, value.recipe_name, at)
  THEN [err |-> <<DuplicateKeyError>>, coll |-> coll, doc |-> <<>>]
  ELSE [err |-> <<>>, coll |-> [coll EXCEPT ![at] = RecipeDoc(value)],
        doc |-> <<RecipeDoc(value)>>]

\* a delete that returns the document and leaves it in the collection
FindOneAndKeep(coll, name) ==
  LET at == FirstPosition(coll, name) IN
  IF at = 0 THEN [err |-> <<>>, coll |-> coll, doc |-> <<>>]
  ELSE [err |-> <<>>, coll |-> coll, doc |-> <<coll[at]>>]

\* Recipe.findOneAndDelete({ recipe_name: name })
FindOneAndDelete(coll, name) ==
  LET at == FirstPosition(coll, name) IN
  IF at = 0 THEN [err |-> <<>>, coll |-> coll, doc |-> <<>>]
  ELSE [err |-> <<>>, coll |-> RemoveAt(coll, at), doc |-> <<coll[at]>>]

(***************************************************************************)
(* GET /recipes: the filter and the page                                   *)
(***************************************************************************)
UpperCase == <<"A", "B", "C", "D", "E", "F", "G", "H", "I", "J", "K", "L", "M",
               "N", "O", "P", "Q", "R", "S", "T", "U", "V", "W", "X", "Y", "Z">>
LowerCase == <<"a", "b", "c", "d", "e", "f", "g", "h", "i", "j", "k", "l", "m",
               "n", "o", "p", "q", "r", "s", "t", "u", "v", "w", "x", "y", "z">>

\* the case folding of $options: 'i'
Fold(c) ==
  IF \E k \in 1..Len(UpperCase) : UpperCase[k] = c
  THEN LowerCase[CHOOSE k \in 1..Len(UpperCase) : UpperCase[k] = c]
  ELSE c

\* does the pattern match s at position i?  A pattern is a sequence of
\* literal characters and of "." (any character).
RegexMatchesAt(pattern, s, i) ==
  /\ i + Len(pattern) - 1 <= Len(s)
  /\ \A k \in 1..Len(pattern) :
       pattern[k] = "." \/ Fold(pattern[k]) = Fold(s[i + k - 1])

\* { $regex: pattern, $options: 'i' }
RegexI(pattern, s) == \E i \in 1..(Len(s) + 1) : RegexMatchesAt(pattern, s, i)

\* the filter of GET /recipes applied to one document; name and ingredient
\* are sequences of at most one string (the query parameter, if given)
MatchesFilter(doc, name, ingredient) ==
  /\ name = <<>> \/ name[1] = NoString \/ RegexI(name[1], doc.recipe_name)
  /\ \/ ingredient = <<>>
     \/ ingredient[1] = NoString
     \/ \E k \in 1..Len(doc.ingredients) : RegexI(ingredient[1], doc.ingredients[k].name)

RECURSIVE Find(_, _, _)
\* Recipe.find(filter): the matching documents in the collection's order
Find(coll, name, ingredient) ==
  IF coll = <<>> THEN <<>>
  ELSE (IF MatchesFilter(Head(coll), name, ingredient) THEN <<Head(coll)>> ELSE <<>>)
       \o Find(Tail(coll), name, ingredient)

\* a page that always starts at the first document
SkipNothing(docs, skip, limit) ==
  SubSeq(docs, 1, IF limit < Len(docs) THEN limit ELSE Len(docs))

\* .skip(skip).limit(limit)
SkipLimit(docs, skip, limit) ==
  SubSeq(docs, skip + 1, IF skip + limit < Len(docs) THEN skip + limit ELSE Len(docs))

\* Math.ceil(total / limit)
Ceil(total, limit) == (total + limit - 1) \div limit

\* getRecipesQuerySchema: name, ingredient optional strings; page, limit
\* optional integers >= 1 (given as sequences of at most one value)
getRecipesQuerySchema(query) ==
  (IF query.name # <<>> /\ query.name[1] = NoString
   THEN <<Detail("name", 0, "string.empty")>> ELSE <<>>)
  \o (IF query.ingredient # <<>> /\ query.ingredient[1] = NoString
      THEN <<Detail("ingredient", 0, "string.empty")>> ELSE <<>>)
  \o (IF query.page # <<>> /\ query.page[1] < 1
      THEN <<Detail("page", 0, "number.min")>> ELSE <<>>)
  \o (IF query.limit # <<>> /\ query.limit[1] < 1
      THEN <<Detail("limit", 0, "number.min")>> ELSE <<>>)

DefaultPage == 1
DefaultLimit == 10

(***************************************************************************)
(* The route handlers: the response, the collection afterwards and the     *)
(* operations issued on the collection                                     *)
(***************************************************************************)
Outcome(resp, coll, ops) == [resp |-> resp, coll |-> coll, ops |-> ops]

\* a calculator that looks the recipe up first and refuses a stored name
PostCalculateCostUnlessStored(req, coll) ==
  IF req.body.recipe_name.t = "str" /\ FirstPosition(coll, req.body.recipe_name.v) # 0
  THEN Outcome(errorHandler(DuplicateKeyError), coll, <<"findOne">>)
  ELSE Outcome(calculateCost(req.body), coll, <<>>)

\* POST /calculate-cost
PostCalculateCost(req, coll) == Outcome(calculateCost(req.body), coll, <<>>)

\* a response that reports success whatever the write returned
WrittenAnyway(written, status, message, docs, op) ==
  Outcome([Json(status) EXCEPT !.message = message, !.docs = docs], written.coll, <<op>>)

\* the response to the outcome of a write: errors go to the error handler
Written(written, status, message, docs, op) ==
  IF written.err # <<>> THEN Outcome(errorHandler(written.err[1]), written.coll, <<op>>)
  ELSE IF written.doc = <<>>
  THEN Outcome(JsonError(404, "Recipe not found."), written.coll, <<op>>)
  ELSE Outcome([Json(status) EXCEPT !.message = message, !.docs = docs], written.coll, <<op>>)

\* POST /save-recipe, from the result of the validation
SaveValidated(validated, coll) ==
  IF validated.details # <<>> THEN Outcome(JsonDetails(validated.details), coll, <<>>)
  ELSE Written(Save(coll, RecipeDoc(validated.value)), 201, "Recipe saved successfully.",
               <<>>, "save")

\* POST /save-recipe
PostSaveRecipe(req, coll) == SaveValidated(saveRecipeSchema(req.body), coll)

\* GET /recipes
GetRecipes(req, coll) ==
  IF getRecipesQuerySchema(req.query) # <<>>
  THEN Outcome(JsonDetails(getRecipesQuerySchema(req.query)), coll, <<>>)
  ELSE LET page  == IF req.query.page = <<>> THEN DefaultPage ELSE req.query.page[1]
           limit == IF req.query.limit = <<>> THEN DefaultLimit ELSE req.query.limit[1]
           found == Find(coll, req.query.name, req.query.ingredient)
       IN  Outcome([Json(200) EXCEPT !.docs  = SkipLimit(found, (page - 1) * limit, limit),
                                     !.total = Len(found),
                                     !.page  = page,
                                     !.pages = Ceil(Len(found), limit)],
                   coll, <<"find", "countDocuments">>)

\* GET /recipes/:name
GetRecipe(req, coll) ==
  IF nameParamSchema(req.name) # <<>>
  THEN Outcome(JsonDetails(nameParamSchema(req.name)), coll, <<>>)
  ELSE IF FindOne(coll, req.name) = <<>>
  THEN Outcome(JsonError(404, "Recipe not found."), coll, <<"findOne">>)
  ELSE Outcome([Json(200) EXCEPT !.docs = FindOne(coll, req.name)], coll, <<"findOne">>)

\* res.json(updated)
Updated(updated) == Written(updated, 200, "", updated.doc, "findOneAndUpdate")

\* an update that looks the recipe up before it validates the body
PutLookedUpFirst(req, validated, coll) ==
  IF nameParamSchema(req.name) # <<>>
  THEN Outcome(JsonDetails(nameParamSchema(req.name)), coll, <<>>)
  ELSE IF FindOne(coll, req.name) = <<>>
  THEN Outcome(JsonError(404, "Recipe not found."), coll, <<"findOne">>)
  ELSE IF validated.details # <<>>
  THEN Outcome(JsonDetails(validated.details), coll, <<"findOne">>)
  ELSE Updated(FindOneAndUpdate(coll, req.name, validated.value))

\* PUT /recipes/:name, from the result of the body's validation
PutValidated(req, validated, coll) ==
  IF nameParamSchema(req.name) # <<>>
  THEN Outcome(JsonDetails(nameParamSchema(req.name)), coll, <<>>)
  ELSE IF validated.details # <<>>
  THEN Outcome(JsonDetails(validated.details), coll, <<>>)
  ELSE Updated(FindOneAndUpdate(coll, req.name, validated.value))

\* PUT /recipes/:name
PutRecipe(req, coll) == PutValidated(req, saveRecipeSchema(req.body), coll)

\* DELETE /recipes/:name
DeleteRecipe(req, coll) ==
  IF nameParamSchema(req.name) # <<>>
  THEN Outcome(JsonDetails(nameParamSchema(req.name)), coll, <<>>)
  ELSE LET deleted == FindOneAndDelete(coll, req.name)
       IN  IF deleted.doc = <<>>
           THEN Outcome(JsonError(404, "Recipe not found."), deleted.coll, <<"findOneAndDelete">>)
           ELSE Outcome(JsonMessage(200, "Recipe deleted successfully."), deleted.coll,
                        <<"findOneAndDelete">>)

\* GET /debug/sentry: next(new Error('Sentry test error'))
DebugSentry(req, coll) ==
  Outcome(errorHandler(Err(0, FALSE, 0, "Sentry test error")), coll, <<>>)

\* GET /openapi.json, /api-docs and GET /: a fixed document
GetOpenapi(req, coll) == Outcome(JsonMessage(200, "openapi"), coll, <<>>)
ApiDocs(req, coll)    == Outcome(JsonMessage(200, "swagger-ui"), coll, <<>>)
GetHealth(req, coll)  == Outcome(JsonMessage(200, "Recipe Cost API is up!"), coll, <<>>)

(***************************************************************************)
(* The application: the layers in the order app.use / app.get register     *)
(* them.  A request walks the layers from the first; a layer answers or    *)
(* hands the request on.                                                   *)
(***************************************************************************)
\* process.env.API_KEY
API_KEY == "s3cret"

\* the layers with requireApiKey registered before every route
LayersKeyFirst ==
  <<"rateLimit", "express.json", "requireApiKey", "GET /openapi.json", "/api-docs",
    "GET /", "POST /calculate-cost", "POST /save-recipe", "GET /recipes",
    "GET /recipes/:name", "PUT /recipes/:name", "DELETE /recipes/:name",
    "GET /debug/sentry", "notFound">>

\* the layers of the application in the order of their registration
Layers ==
  <<"rateLimit", "express.json", "GET /openapi.json", "/api-docs", "GET /",
    "requireApiKey", "POST /calculate-cost", "POST /save-recipe", "GET /recipes",
    "GET /recipes/:name", "PUT /recipes/:name", "DELETE /recipes/:name",
    "GET /debug/sentry", "notFound">>

\* a requireApiKey that lets every request pass
KeyNotRequired(key) == TRUE

\* requireApiKey: does the request pass?  key is the x-api-key header,
\* "" when the header is missing
requireApiKey(key) == ~(key = "" \/ key # API_KEY)

\* does the layer answer the request (rather than hand it on)?
Answers(layer, req) ==
  CASE layer = "rateLimit"     -> req.limited
    [] layer = "express.json"  -> req.parse # "ok"
    [] layer = "requireApiKey" -> ~requireApiKey(req.key)
    [] layer = "notFound"      -> TRUE
    [] OTHER                   -> layer = req.route

\* the first layer, in the order of registration, that answers
FirstAnswering(layers, req) ==
  CHOOSE i \in 1..Len(layers) :
    /\ Answers(layers[i], req)
    /\ \A j \in 1..(i - 1) : ~Answers(layers[j], req)

\* the application's answer to a request; routed is the outcome of the
\* handler registered for the request's route, run if the request gets there
App(req, coll, routed) ==
  LET layer == Layers[FirstAnswering(Layers, req)] IN
  CASE layer = "rateLimit" ->
         Outcome(JsonError(429, "Too many requests, please try again later."), coll, <<>>)
    [] layer = "express.json" ->
         Outcome(errorHandler(IF req.parse = "tooLarge" THEN EntityTooLarge ELSE ParseFailed),
                 coll, <<>>)
    [] layer = "requireApiKey" -> Outcome(JsonError(401, "Unauthorized"), coll, <<>>)
    [] layer = "notFound" -> Outcome(notFoundHandler, coll, <<>>)
    [] OTHER -> routed

(***************************************************************************)
(* The requests the model sends                                            *)
(***************************************************************************)
EmptyBody ==
  [recipe_name |-> JAbsentStr, servings |-> JAbsentNum, ingredients |-> JAbsentArr,
   markup_multiplier |-> JAbsentNum, unknown |-> FALSE]

EmptyQuery == [name |-> <<>>, ingredient |-> <<>>, page |-> <<>>, limit |-> <<>>]

Request(route, key, limited, parse, body, name, query) ==
  [route |-> route, key |-> key, limited |-> limited, parse |-> parse,
   body |-> body, name |-> name, query |-> query]

Item(name, quantity, unit, unit_cost) ==
  [name |-> JStr(name), quantity |-> JNum(quantity), unit |-> JStr(unit),
   unit_cost |-> JNum(unit_cost)]

Body(recipe_name, servings, items, markup_multiplier) ==
  [recipe_name |-> JStr(recipe_name), servings |-> JNum(servings),
   ingredients |-> JArr(items), markup_multiplier |-> markup_multiplier, unknown |-> FALSE]

Pie  == <<"P", "i", "e">>
pie  == <<"p", "i", "e">>
Tart == <<"T", "a", "r", "t">>
Names == {Pie, pie, Tart}

\* the names asked for by GET /recipes/:name: those and the beginning of one
PathNames == Names \cup {<<"P", "i">>}

\* 2 pc at 1.5, 1 l at 0.015, 1 g at 0.12345 (more than 4 decimals), 0.5 l at 0
Egg   == Item(<<"e", "g", "g">>, FFromInt(2), <<"p", "c">>, Dec(15, 1))
Oil   == Item(<<"O", "i", "l">>, FFromInt(1), <<"l">>, Dec(15, 3))
Salt  == Item(<<"s", "a", "l", "t">>, FFromInt(1), <<"g">>, Dec(12345, 5))
Water == Item(<<"w", "a", "t", "e", "r">>, Dec(5, 1), <<"l">>, FFromInt(0))

\* x-api-key headers: missing, the secret, another value
Keys == {"", API_KEY, "wrong"}

\* what express.json makes of the body: parsed (or no body), not JSON, over 100kb
Parses == {"ok", "malformed", "tooLarge"}

\* the bodies of the save and update requests: valid ones, with and
\* without a markup_multiplier, and invalid ones
ValidBodies ==
  {Body(n, FFromInt(1), <<Egg, Oil>>, JAbsentNum) : n \in Names}
  \cup {Body(n, FFromInt(2), <<Salt>>, JNum(FFromInt(2))) : n \in Names}
  \cup {Body(Tart, FFromInt(1), <<[Oil EXCEPT !.unit_cost = JNum(Dec(-1, 5))]>>, JAbsentNum)}

InvalidBodies ==
  {EmptyBody,
   Body(Pie, FFromInt(0), <<Egg>>, JAbsentNum),
   Body(pie, FFromInt(1), <<>>, JAbsentNum),
   Body(Tart, FFromInt(1), <<[Egg EXCEPT !.quantity = JNum(FFromInt(0))]>>, JAbsentNum),
   Body(Tart, FFromInt(1), <<[Egg EXCEPT !.unit_cost = JNum(Dec(-1, 4))]>>, JAbsentNum),
   Body(Tart, FFromInt(1), <<[Egg EXCEPT !.name = JAbsentStr]>>, JAbsentNum),
   Body(Tart, FFromInt(1), <<[Egg EXCEPT !.unit = JStr(NoString)]>>, JAbsentNum)}

Bodies == ValidBodies \cup InvalidBodies

Queries ==
  {EmptyQuery,
   [EmptyQuery EXCEPT !.name = <<pie>>],
   [EmptyQuery EXCEPT !.name = <<<<"P", ".", "e">>>>],
   [EmptyQuery EXCEPT !.ingredient = <<<<"o", "i">>>>],
   [EmptyQuery EXCEPT !.page = <<2>>, !.limit = <<1>>],
   [EmptyQuery EXCEPT !.page = <<0>>]}

\* every header, rate limiter verdict and body parser outcome around a route's input
Envelopes(route, bodies, names, queries) ==
  {Request(route, k, l, p, b, n, q) :
     k \in Keys, l \in BOOLEAN, p \in Parses, b \in bodies, n \in names, q \in queries}

(***************************************************************************)
(* State                                                                   *)
(***************************************************************************)
VARIABLES
  recipes,   \* the collection: the documents in their natural order
  req,       \* the request being answered: <<>> or <<request>>
  resp,      \* its response: <<>> or <<response>>
  before,    \* the collection when the request arrived
  ops,       \* the operations the request issued on the collection
  seen       \* history: <<>> or <<[body, resp, stored]>>, a calculation answered
             \* earlier and whether its recipe_name was stored at that time
             \* (recorded by SpecPure)

vars == <<recipes, req, resp, before, ops, seen>>

\* the model stops saving when the collection holds MaxRecipes recipes
MaxRecipes == 2

Init ==
  /\ recipes = <<>>
  /\ req = <<>>
  /\ resp = <<>>
  /\ before = <<>>
  /\ ops = <<>>
  /\ seen = <<>>

\* no request is being answered
Idle == req = <<>>

\* the outcome of the request takes effect
Deliver(out) ==
  /\ recipes' = out.coll
  /\ resp' = <<out.resp>>
  /\ ops' = out.ops

\* the application answers the request r
Serve(r, routed) ==
  /\ Deliver(App(r, recipes, routed))
  /\ req' = <<r>>
  /\ before' = recipes
  /\ UNCHANGED seen

OpenapiRequest ==
  /\ Idle
  /\ \E r \in Envelopes("GET /openapi.json", {EmptyBody}, {NoString}, {EmptyQuery}) :
       Serve(r, GetOpenapi(r, recipes))

ApiDocsRequest ==
  /\ Idle
  /\ \E r \in Envelopes("/api-docs", {EmptyBody}, {NoString}, {EmptyQuery}) :
       Serve(r, ApiDocs(r, recipes))

HealthRequest ==
  /\ Idle
  /\ \E r \in Envelopes("GET /", {EmptyBody}, {NoString}, {EmptyQuery}) :
       Serve(r, GetHealth(r, recipes))

CalculateCostRequest ==
  /\ Idle
  /\ \E r \in Envelopes("POST /calculate-cost", Bodies, {NoString}, {EmptyQuery}) :
       Serve(r, PostCalculateCost(r, recipes))

SaveRecipeRequest ==
  /\ Idle
  /\ Len(recipes) < MaxRecipes
  /\ \E r \in Envelopes("POST /save-recipe", Bodies, {NoString}, {EmptyQuery}) :
       Serve(r, PostSaveRecipe(r, recipes))

GetRecipesRequest ==
  /\ Idle
  /\ \E r \in Envelopes("GET /recipes", {EmptyBody}, {NoString}, Queries) :
       Serve(r, GetRecipes(r, recipes))

GetRecipeRequest ==
  /\ Idle
  /\ \E r \in Envelopes("GET /recipes/:name", {EmptyBody}, PathNames, {EmptyQuery}) :
       Serve(r, GetRecipe(r, recipes))

PutRecipeRequest ==
  /\ Idle
  /\ \E r \in Envelopes("PUT /recipes/:name", Bodies, Names, {EmptyQuery}) :
       Serve(r, PutRecipe(r, recipes))

DeleteRecipeRequest ==
  /\ Idle
  /\ \E r \in Envelopes("DELETE /recipes/:name", {EmptyBody}, Names, {EmptyQuery}) :
       Serve(r, DeleteRecipe(r, recipes))

DebugSentryRequest ==
  /\ Idle
  /\ \E r \in Envelopes("GET /debug/sentry", {EmptyBody}, {NoString}, {EmptyQuery}) :
       Serve(r, DebugSentry(r, recipes))

\* a route no layer is registered for
UnknownRouteRequest ==
  /\ Idle
  /\ \E r \in Envelopes("GET /nowhere", {EmptyBody}, {NoString}, {EmptyQuery}) :
       Serve(r, Outcome(notFoundHandler, recipes, <<>>))

\* the response is sent: the request is over
ResponseSent ==
  /\ req # <<>>
  /\ req' = <<>>
  /\ resp' = <<>>
  /\ ops' = <<>>
  /\ before' = recipes
  /\ UNCHANGED <<recipes, seen>>

Next ==
  \/ OpenapiRequest
  \/ ApiDocsRequest
  \/ HealthRequest
  \/ CalculateCostRequest
  \/ SaveRecipeRequest
  \/ GetRecipesRequest
  \/ GetRecipeRequest
  \/ PutRecipeRequest
  \/ DeleteRecipeRequest
  \/ DebugSentryRequest
  \/ UnknownRouteRequest
  \/ ResponseSent

Spec == Init /\ [][Next]_vars

(***************************************************************************)
(* The calculator on its own: POST /calculate-cost with the key, over      *)
(* ingredient lists of up to MaxIngredients items in every order, servings *)
(* up to MaxServings, and bodies with one defect each                      *)
(***************************************************************************)
MaxIngredients == 3
MaxServings == 2

CalcItems == {Egg, Oil, Water}

ItemLists == UNION {[1..k -> CalcItems] : k \in 1..MaxIngredients}

\* markup_multiplier omitted, 2, 0.5, 6.4
Markups == {JAbsentNum, JNum(FFromInt(2)), JNum(Dec(5, 1)), JNum(Dec(64, 1))}

CalcValidBodies ==
  {Body(Pie, FFromInt(n), l, m) : n \in 1..MaxServings, l \in ItemLists, m \in Markups}

\* an ingredient that lacks a key, or whose quantity or unit_cost is out of
\* range: 0, -1, -0.0001, -0.00005, -0.00001
DefectItems ==
  {[Oil EXCEPT !.name = JAbsentStr],
   [Oil EXCEPT !.quantity = JAbsentNum],
   [Oil EXCEPT !.unit = JAbsentStr],
   [Oil EXCEPT !.unit_cost = JAbsentNum],
   [Oil EXCEPT !.quantity = JNum(FFromInt(0))],
   [Oil EXCEPT !.quantity = JNum(FFromInt(-1))],
   [Oil EXCEPT !.unit_cost = JNum(FFromInt(-1))],
   [Oil EXCEPT !.unit_cost = JNum(Dec(-1, 4))],
   [Oil EXCEPT !.unit_cost = JNum(Dec(-5, 5))],
   [Oil EXCEPT !.unit_cost = JNum(Dec(-1, 5))]}

BaseBody == Body(Pie, FFromInt(2), <<Egg, Oil>>, JAbsentNum)

\* an ingredient with a quantity and a unit_cost only: { quantity: 2, unit_cost: 1.5 }
BareItem == [Egg EXCEPT !.name = JAbsentStr, !.unit = JAbsentStr]

\* such an ingredient on its own, 2 servings, with and without a recipe_name
BareBodies ==
  {Body(Pie, FFromInt(2), <<BareItem>>, JAbsentNum),
   [Body(Pie, FFromInt(2), <<BareItem>>, JAbsentNum) EXCEPT !.recipe_name = JAbsentStr]}

\* the base body with one key missing, of another type or out of range
CalcDefectBodies ==
  {[BaseBody EXCEPT !.recipe_name = j] : j \in {JAbsentStr, JOtherStr, JStr(NoString)}}
  \cup {[BaseBody EXCEPT !.servings = j] :
          j \in {JAbsentNum, JOtherNum, JNum(FFromInt(0)), JNum(FFromInt(-1)),
                 JNum(Dec(15, 1))}}
  \cup {[BaseBody EXCEPT !.ingredients = j] : j \in {JAbsentArr, JOtherArr, JArr(<<>>)}}
  \cup {[BaseBody EXCEPT !.ingredients = JArr(<<Egg, d>>)] : d \in DefectItems}
  \cup {[BaseBody EXCEPT !.markup_multiplier = j] :
          j \in {JOtherNum, JNum(FFromInt(0)), JNum(FFromInt(-1))}}
  \cup {[BaseBody EXCEPT !.unknown = TRUE]}
  \cup BareBodies

CalcBodies == CalcValidBodies \cup CalcDefectBodies

CalcRequests ==
  {Request("POST /calculate-cost", API_KEY, FALSE, "ok", b, NoString, EmptyQuery) :
     b \in CalcBodies}

CalculateRequest ==
  /\ Idle
  /\ \E r \in CalcRequests : Serve(r, PostCalculateCost(r, recipes))

NextCalc ==
  \/ CalculateRequest
  \/ ResponseSent

SpecCalc == Init /\ [][NextCalc]_vars

(***************************************************************************)
(* The calculator among the writes: POST /calculate-cost with the key,     *)
(* interleaved with save, update and delete requests; a calculation may be *)
(* remembered for comparison with a later one                              *)
(***************************************************************************)
\* the requests for a route that reach its handler
Admitted(route, bodies, names) ==
  {Request(route, API_KEY, FALSE, "ok", b, n, EmptyQuery) : b \in bodies, n \in names}

\* the calculation is answered and possibly remembered
Remember(r, out) ==
  /\ Deliver(out)
  /\ req' = <<r>>
  /\ before' = recipes
  /\ seen' \in {seen,
                <<[body |-> r.body, resp |-> out.resp,
                   stored |-> r.body.recipe_name.v \in {recipes[i].recipe_name :
                                                          i \in 1..Len(recipes)}]>>}

\* the bodies calculated among the writes: those named Pie or not named
PureBodies == {b \in Bodies : b.recipe_name.v \in {NoString, Pie}}

PureCalculateRequest ==
  /\ Idle
  /\ \E r \in Admitted("POST /calculate-cost", PureBodies, {NoString}) :
       Remember(r, App(r, recipes, PostCalculateCost(r, recipes)))

PureSaveRequest ==
  /\ Idle
  /\ Len(recipes) < MaxRecipes
  /\ \E r \in Admitted("POST /save-recipe", ValidBodies, {NoString}) :
       Serve(r, PostSaveRecipe(r, recipes))

PureUpdateRequest ==
  /\ Idle
  /\ \E r \in Admitted("PUT /recipes/:name", ValidBodies, Names) :
       Serve(r, PutRecipe(r, recipes))

PureDeleteRequest ==
  /\ Idle
  /\ \E r \in Admitted("DELETE /recipes/:name", {EmptyBody}, Names) :
       Serve(r, DeleteRecipe(r, recipes))

NextPure ==
  \/ PureCalculateRequest
  \/ PureSaveRequest
  \/ PureUpdateRequest
  \/ PureDeleteRequest
  \/ ResponseSent

SpecPure == Init /\ [][NextPure]_vars

(***************************************************************************)
(* The error handler on its own: next(err) with an error of any shape      *)
(***************************************************************************)
\* err.code: none, duplicate key, another code
ErrCodes == {0, DuplicateKeyCode, DuplicateKeyCode + 1}

\* err.status: none, or a status set by the middleware that raised the error
ErrStatuses == {0, 400, 404, 413, 500, 503}

ErrMessages == {"", "Sentry test error", "request entity too large"}

Errors ==
  {Err(c, j, st, m) : c \in ErrCodes, j \in BOOLEAN, st \in ErrStatuses, m \in ErrMessages}

\* next(err): the error handler answers
ErrorRaised ==
  /\ Idle
  /\ \E err \in Errors :
       /\ req' = <<[route |-> "next(err)", err |-> err]>>
       /\ resp' = <<errorHandler(err)>>
  /\ ops' = <<>>
  /\ before' = recipes
  /\ UNCHANGED <<recipes, seen>>

NextErr ==
  \/ ErrorRaised
  \/ ResponseSent

SpecErr == Init /\ [][NextErr]_vars

(***************************************************************************)
(* Concurrent saves: up to MaxClients POST /save-recipe requests in flight *)
(* at once.  A handler runs up to its await (validation, new Recipe), the  *)
(* store then performs the insert on its own, atomically, and the handler  *)
(* resumes and answers.  Here req holds one record per handler, in the     *)
(* order of arrival, and resp the response of each once it has answered.   *)
(***************************************************************************)
MaxClients == 2

\* the bodies saved concurrently: the valid ones named Pie or pie, and an invalid one
ConcBodies == {b \in ValidBodies : b.recipe_name.v \in {Pie, pie}} \cup {EmptyBody}

\* the handler of request r after its synchronous part
Arrived(r, validated) ==
  IF validated.details # <<>>
  THEN [r |-> r, pc |-> "done", doc |-> <<>>, written |-> <<>>,
        resp |-> <<JsonDetails(validated.details)>>]
  ELSE [r |-> r, pc |-> "saving", doc |-> <<RecipeDoc(validated.value)>>, written |-> <<>>,
        resp |-> <<>>]

\* a request arrives and its handler runs up to await recipe.save()
SaveArrives ==
  /\ Len(req) < MaxClients
  /\ Len(recipes) < MaxRecipes
  /\ \E r \in Admitted("POST /save-recipe", ConcBodies, {NoString}) :
       /\ req' = Append(req, Arrived(r, saveRecipeSchema(r.body)))
       /\ resp' = Append(resp, Arrived(r, saveRecipeSchema(r.body)).resp)
  /\ before' = IF req = <<>> THEN recipes ELSE before
  /\ UNCHANGED <<recipes, ops, seen>>

\* the store performs the insert of handler i
Inserts(i, written) ==
  /\ recipes' = written.coll
  /\ req' = [req EXCEPT ![i].pc = "saved", ![i].written = <<written>>]
  /\ UNCHANGED <<resp, before, ops, seen>>

SaveInserts ==
  \E i \in 1..Len(req) :
    /\ req[i].pc = "saving"
    /\ Inserts(i, Save(recipes, req[i].doc[1]))

\* handler i resumes after the await and answers
SaveAnswers ==
  \E i \in 1..Len(req) :
    /\ req[i].pc = "saved"
    /\ req' = [req EXCEPT ![i].pc = "done"]
    /\ resp' = [resp EXCEPT ![i] = <<Written(req[i].written[1], 201,
                                              "Recipe saved successfully.", <<>>, "save").resp>>]
    /\ UNCHANGED <<recipes, before, ops, seen>>

\* every handler has answered: the responses are sent
SavesSent ==
  /\ req # <<>>
  /\ \A i \in 1..Len(req) : req[i].pc = "done"
  /\ req' = <<>>
  /\ resp' = <<>>
  /\ before' = recipes
  /\ UNCHANGED <<recipes, ops, seen>>

\* a recipe is deleted between two rounds of saves
DeleteBetween ==
  /\ req = <<>>
  /\ \E n \in {Pie, pie} :
       /\ FirstPosition(recipes, n) # 0
       /\ recipes' = FindOneAndDelete(recipes, n).coll
       /\ before' = FindOneAndDelete(recipes, n).coll
  /\ UNCHANGED <<req, resp, ops, seen>>

NextConc ==
  \/ SaveArrives
  \/ SaveInserts
  \/ SaveAnswers
  \/ SavesSent
  \/ DeleteBetween

SpecConc == Init /\ [][NextConc]_vars

(***************************************************************************)
(* Listing: GET /recipes with the key, over pages up to MaxPage and limits *)
(* up to MaxLimit, with and without a filter, between saves, updates and   *)
(* deletes; one request at a time                                          *)
(***************************************************************************)
MaxPage == 3
MaxLimit == 2

\* a query parameter left out, or one of the values
Optional(values) == {<<>>} \cup {<<v>> : v \in values}

\* the queries listed: name and ingredient left out or a pattern some
\* recipes match, page and limit left out or in range
ListQueries ==
  {[name |-> n, ingredient |-> i, page |-> p, limit |-> l] :
     n \in Optional({pie, <<"T">>}), i \in Optional({<<"o", "i">>}),
     p \in Optional(1..MaxPage), l \in Optional(1..MaxLimit)}

ListRecipesRequest ==
  /\ Idle
  /\ \E q \in ListQueries :
       Serve(Request("GET /recipes", API_KEY, FALSE, "ok", EmptyBody, NoString, q),
             GetRecipes(Request("GET /recipes", API_KEY, FALSE, "ok", EmptyBody, NoString, q),
                        recipes))

NextList ==
  \/ ListRecipesRequest
  \/ PureSaveRequest
  \/ PureUpdateRequest
  \/ PureDeleteRequest
  \/ ResponseSent

SpecList == Init /\ [][NextList]_vars

(***************************************************************************)
(* Listing among concurrent writes: the handler of GET /recipes validates  *)
(* the query and issues find and countDocuments together (Promise.all);    *)
(* the store performs each on its own, in either order, and the saves and  *)
(* deletes of other requests may be performed before, between and after    *)
(* them.  Here req holds the handler: its request, its position and what   *)
(* the store has returned to it so far.                                    *)
(***************************************************************************)
\* the queries listed among the writes
ConcQueries ==
  {EmptyQuery,
   [EmptyQuery EXCEPT !.name = <<pie>>],
   [EmptyQuery EXCEPT !.page = <<2>>, !.limit = <<1>>],
   [EmptyQuery EXCEPT !.page = <<0>>]}

\* the recipes saved and deleted meanwhile: one named Pie, one named pie
RaceBodies == {Body(n, FFromInt(1), <<Egg, Oil>>, JAbsentNum) : n \in {Pie, pie}}

\* the handler of request r after its synchronous part
Listing(r, details) ==
  IF details # <<>>
  THEN [r |-> r, pc |-> "done", data |-> <<>>, total |-> <<>>]
  ELSE [r |-> r, pc |-> "reading", data |-> <<>>, total |-> <<>>]

\* a list request arrives and its handler runs up to await Promise.all
ListArrives ==
  /\ Idle
  /\ \E r \in {Request("GET /recipes", API_KEY, FALSE, "ok", EmptyBody, NoString, q) :
                 q \in ConcQueries} :
       /\ req' = <<Listing(r, getRecipesQuerySchema(r.query))>>
       /\ resp' = IF getRecipesQuerySchema(r.query) # <<>>
                  THEN <<JsonDetails(getRecipesQuerySchema(r.query))>>
                  ELSE <<>>
  /\ before' = recipes
  /\ UNCHANGED <<recipes, ops, seen>>

\* the page and the limit of a validated query
PageAsked(query) == IF query.page = <<>> THEN DefaultPage ELSE query.page[1]
LimitAsked(query) == IF query.limit = <<>> THEN DefaultLimit ELSE query.limit[1]

\* the store performs Recipe.find(filter).skip(skip).limit(limit)
FindRuns ==
  /\ req # <<>>
  /\ req[1].pc = "reading"
  /\ req[1].data = <<>>
  /\ req' = [req EXCEPT ![1].data =
               <<SkipLimit(Find(recipes, req[1].r.query.name, req[1].r.query.ingredient),
                           (PageAsked(req[1].r.query) - 1) * LimitAsked(req[1].r.query),
                           LimitAsked(req[1].r.query))>>]
  /\ ops' = Append(ops, "find")
  /\ UNCHANGED <<recipes, resp, before, seen>>

\* the store performs Recipe.countDocuments(filter)
CountRuns ==
  /\ req # <<>>
  /\ req[1].pc = "reading"
  /\ req[1].total = <<>>
  /\ req' = [req EXCEPT ![1].total =
               <<Len(Find(recipes, req[1].r.query.name, req[1].r.query.ingredient))>>]
  /\ ops' = Append(ops, "countDocuments")
  /\ UNCHANGED <<recipes, resp, before, seen>>

\* Promise.all has both results: the handler resumes and answers
ListAnswers ==
  /\ req # <<>>
  /\ req[1].pc = "reading"
  /\ req[1].data # <<>>
  /\ req[1].total # <<>>
  /\ req' = [req EXCEPT ![1].pc = "done"]
  /\ resp' = <<[Json(200) EXCEPT !.docs  = req[1].data[1],
                                 !.total = req[1].total[1],
                                 !.page  = PageAsked(req[1].r.query),
                                 !.pages = Ceil(req[1].total[1], LimitAsked(req[1].r.query))]>>
  /\ UNCHANGED <<recipes, before, ops, seen>>

\* the response is sent
ListSent ==
  /\ req # <<>>
  /\ req[1].pc = "done"
  /\ req' = <<>>
  /\ resp' = <<>>
  /\ ops' = <<>>
  /\ before' = recipes
  /\ UNCHANGED <<recipes, seen>>

\* the store performs the insert of another request's POST /save-recipe
SaveDuring ==
  /\ Len(recipes) < MaxRecipes
  /\ \E b \in RaceBodies :
       /\ Save(recipes, RecipeDoc(saveRecipeSchema(b).value)).err = <<>>
       /\ recipes' = Save(recipes, RecipeDoc(saveRecipeSchema(b).value)).coll
  /\ UNCHANGED <<req, resp, before, ops, seen>>

\* the store performs the delete of another request's DELETE /recipes/:name
DeleteDuring ==
  /\ \E n \in {Pie, pie} :
       /\ FirstPosition(recipes, n) # 0
       /\ recipes' = FindOneAndDelete(recipes, n).coll
  /\ UNCHANGED <<req, resp, before, ops, seen>>

NextRace ==
  \/ ListArrives
  \/ FindRuns
  \/ CountRuns
  \/ ListAnswers
  \/ ListSent
  \/ SaveDuring
  \/ DeleteDuring

SpecRace == Init /\ [][NextRace]_vars

(***************************************************************************)
(* Requests whose store operation may fail.  The repository holds the      *)
(* server of src/index.js, whose routes are wrapped in asyncHandler and    *)
(* followed by the error handler, and the server of src/unnamed/part_005,  *)
(* whose routes are bare async functions (POST /save-recipe with a         *)
(* try/catch of its own) and which registers no error handler.  A request  *)
(* reaches a route handler, which answers at once or awaits the store; the *)
(* store operation then succeeds or fails.  Here req holds the handler and *)
(* resp every response it has sent, in order.  What a handler answers when *)
(* nothing fails is taken from src/index.js for both servers (their routes *)
(* differ there only in how many validation messages a 400 lists).         *)
(***************************************************************************)
Servers == {"src/index.js", "src/unnamed/part_005"}

\* the store operation fails: the connection is lost
StoreError == Err(0, FALSE, 0, "connection lost")

\* the requests that reach a handler: a save and an update with a valid and
\* with an invalid body, a list with a valid and with an invalid query, a
\* get and a delete
FailRequests ==
  Admitted("POST /save-recipe",
           {Body(Pie, FFromInt(1), <<Egg, Oil>>, JAbsentNum), EmptyBody}, {NoString})
  \cup Admitted("PUT /recipes/:name",
                {Body(Pie, FFromInt(2), <<Salt>>, JAbsentNum), EmptyBody}, {Pie, Tart})
  \cup Admitted("GET /recipes/:name", {EmptyBody}, {Pie, Tart})
  \cup Admitted("DELETE /recipes/:name", {EmptyBody}, {Pie, Tart})
  \cup {Request("GET /recipes", API_KEY, FALSE, "ok", EmptyBody, NoString, q) :
          q \in {EmptyQuery, [EmptyQuery EXCEPT !.page = <<0>>]}}

\* the handler of request r on a server; out is what it answers, and makes
\* of the collection, if its store operation succeeds.  A handler that
\* issues no store operation has answered already.
Handling(r, server, out) ==
  [r |-> r, server |-> server, out |-> out,
   pc |-> IF out.ops = <<>> THEN "done" ELSE "awaiting"]

\* the handler runs up to its await, or to its first response
Reaches(r, server, out) ==
  /\ req' = <<Handling(r, server, out)>>
  /\ resp' = IF out.ops = <<>> THEN <<out.resp>> ELSE <<>>
  /\ before' = recipes
  /\ UNCHANGED <<recipes, ops, seen>>

SaveReaches ==
  /\ Idle
  /\ Len(recipes) < MaxRecipes
  /\ \E server \in Servers :
       \E r \in {q \in FailRequests : q.route = "POST /save-recipe"} :
         Reaches(r, server, PostSaveRecipe(r, recipes))

ListReaches ==
  /\ Idle
  /\ \E server \in Servers :
       \E r \in {q \in FailRequests : q.route = "GET /recipes"} :
         Reaches(r, server, GetRecipes(r, recipes))

GetReaches ==
  /\ Idle
  /\ \E server \in Servers :
       \E r \in {q \in FailRequests : q.route = "GET /recipes/:name"} :
         Reaches(r, server, GetRecipe(r, recipes))

UpdateReaches ==
  /\ Idle
  /\ \E server \in Servers :
       \E r \in {q \in FailRequests : q.route = "PUT /recipes/:name"} :
         Reaches(r, server, PutRecipe(r, recipes))

DeleteReaches ==
  /\ Idle
  /\ \E server \in Servers :
       \E r \in {q \in FailRequests : q.route = "DELETE /recipes/:name"} :
         Reaches(r, server, DeleteRecipe(r, recipes))

\* the store operation succeeds: the handler resumes and answers
StoreSucceeds ==
  /\ req # <<>>
  /\ req[1].pc = "awaiting"
  /\ recipes' = req[1].out.coll
  /\ ops' = req[1].out.ops
  /\ resp' = Append(resp, req[1].out.resp)
  /\ req' = [req EXCEPT ![1].pc = "done"]
  /\ UNCHANGED <<before, seen>>

\* where a handler whose await has thrown goes on: asyncHandler's
\* .catch(next) in src/index.js; in src/unnamed/part_005 the catch block of
\* POST /save-recipe, and for the other routes nowhere: the promise the
\* route returned is rejected and nothing is attached to it
AfterRejection(server, route) ==
  IF server = "src/index.js" THEN "next(err)"
  ELSE IF route = "POST /save-recipe" THEN "catch"
  ELSE "rejected"

\* the store operation fails: the await throws
StoreFails ==
  /\ req # <<>>
  /\ req[1].pc = "awaiting"
  /\ req' = [req EXCEPT ![1].pc = AfterRejection(req[1].server, req[1].r.route)]
  /\ ops' = req[1].out.ops
  /\ UNCHANGED <<recipes, resp, before, seen>>

\* next(err): the error handler answers
ErrorHandlerAnswers ==
  /\ req # <<>>
  /\ req[1].pc = "next(err)"
  /\ resp' = Append(resp, errorHandler(StoreError))
  /\ req' = [req EXCEPT ![1].pc = "done"]
  /\ UNCHANGED <<recipes, before, ops, seen>>

\* the catch block of POST /save-recipe in src/unnamed/part_005 answers
CatchAnswers ==
  /\ req # <<>>
  /\ req[1].pc = "catch"
  /\ resp' = Append(resp, IF StoreError.code = DuplicateKeyCode
                          THEN JsonError(409, "Recipe name already exists.")
                          ELSE JsonError(500, "Failed to save recipe."))
  /\ req' = [req EXCEPT ![1].pc = "done"]
  /\ UNCHANGED <<recipes, before, ops, seen>>

\* the handler is done and its response sent: the request is over
HandlerDone ==
  /\ req # <<>>
  /\ req[1].pc = "done"
  /\ req' = <<>>
  /\ resp' = <<>>
  /\ ops' = <<>>
  /\ before' = recipes
  /\ UNCHANGED <<recipes, seen>>

NextFail ==
  \/ SaveReaches
  \/ ListReaches
  \/ GetReaches
  \/ UpdateReaches
  \/ DeleteReaches
  \/ StoreSucceeds
  \/ StoreFails
  \/ ErrorHandlerAnswers
  \/ CatchAnswers
  \/ HandlerDone

\* a store operation issued settles, and a callback that is due is run
SpecFail ==
  /\ Init
  /\ [][NextFail]_vars
  /\ WF_vars(StoreSucceeds \/ StoreFails)
  /\ WF_vars(ErrorHandlerAnswers)
  /\ WF_vars(CatchAnswers)

(***************************************************************************)
(* The key when the secret may be missing: every request comes with the    *)
(* environment it is served in, where process.env.API_KEY is not set, is   *)
(* set to the empty string, or is set to the secret.  Here the request in  *)
(* req also carries that environment (secret: <<>> when the variable is    *)
(* not set, <<value>> otherwise).                                          *)
(***************************************************************************)
\* process.env.API_KEY: not set, empty, the secret
Secrets == {<<>>, <<"">>, <<API_KEY>>}

\* x-api-key headers: missing, the secret, another value, the text undefined
HeaderKeys == Keys \cup {"undefined"}

\* a check that compares the header with the text of process.env.API_KEY
\* (the text undefined when the variable is not set) and nothing else
KeyMatchesText(key, secret) ==
  key = (IF secret = <<>> THEN "undefined" ELSE secret[1])

\* requireApiKey under an environment: !key || key !== process.env.API_KEY
\* fails the request; a string is never === undefined
KeyPasses(key, secret) == ~(key = "" \/ secret = <<>> \/ key # secret[1])

\* does the layer answer the request under this environment?
AnswersUnder(layer, request, secret) ==
  CASE layer = "rateLimit"     -> request.limited
    [] layer = "express.json"  -> request.parse # "ok"
    [] layer = "requireApiKey" -> ~KeyPasses(request.key, secret)
    [] layer = "notFound"      -> TRUE
    [] OTHER                   -> layer = request.route

\* the first layer that answers under this environment
FirstAnsweringUnder(layers, request, secret) ==
  CHOOSE i \in 1..Len(layers) :
    /\ AnswersUnder(layers[i], request, secret)
    /\ \A j \in 1..(i - 1) : ~AnswersUnder(layers[j], request, secret)

\* the application's answer under this environment
AppUnder(request, coll, routed, secret) ==
  LET layer == Layers[FirstAnsweringUnder(Layers, request, secret)] IN
  CASE layer = "rateLimit" ->
         Outcome(JsonError(429, "Too many requests, please try again later."), coll, <<>>)
    [] layer = "express.json" ->
         Outcome(errorHandler(IF request.parse = "tooLarge" THEN EntityTooLarge ELSE ParseFailed),
                 coll, <<>>)
    [] layer = "requireApiKey" -> Outcome(JsonError(401, "Unauthorized"), coll, <<>>)
    [] layer = "notFound" -> Outcome(notFoundHandler, coll, <<>>)
    [] OTHER -> routed

\* the requests sent to a route: every header, rate limiter verdict and
\* body parser outcome around a body and a name
EnvEnvelopes(route, bodies, names) ==
  {Request(route, k, l, p, b, n, EmptyQuery) :
     k \in HeaderKeys, l \in BOOLEAN, p \in Parses, b \in bodies, n \in names}

\* the bodies sent: a valid one and an invalid one
EnvBodies == {Body(Pie, FFromInt(1), <<Egg, Oil>>, JAbsentNum), EmptyBody}

\* the application answers the request r under the environment
ServeUnder(r, routed, secret) ==
  /\ Deliver(AppUnder(r, recipes, routed, secret))
  /\ req' = <<r @@ ("secret" :> secret)>>
  /\ before' = recipes
  /\ UNCHANGED seen

EnvCalculate ==
  /\ Idle
  /\ \E secret \in Secrets : \E r \in EnvEnvelopes("POST /calculate-cost", EnvBodies, {NoString}) :
       ServeUnder(r, PostCalculateCost(r, recipes), secret)

EnvSave ==
  /\ Idle
  /\ Len(recipes) < MaxRecipes
  /\ \E secret \in Secrets : \E r \in EnvEnvelopes("POST /save-recipe", EnvBodies, {NoString}) :
       ServeUnder(r, PostSaveRecipe(r, recipes), secret)

EnvList ==
  /\ Idle
  /\ \E secret \in Secrets : \E r \in EnvEnvelopes("GET /recipes", {EmptyBody}, {NoString}) :
       ServeUnder(r, GetRecipes(r, recipes), secret)

EnvGet ==
  /\ Idle
  /\ \E secret \in Secrets : \E r \in EnvEnvelopes("GET /recipes/:name", {EmptyBody}, {Pie}) :
       ServeUnder(r, GetRecipe(r, recipes), secret)

EnvUpdate ==
  /\ Idle
  /\ \E secret \in Secrets : \E r \in EnvEnvelopes("PUT /recipes/:name", EnvBodies, {Pie}) :
       ServeUnder(r, PutRecipe(r, recipes), secret)

EnvDelete ==
  /\ Idle
  /\ \E secret \in Secrets : \E r \in EnvEnvelopes("DELETE /recipes/:name", {EmptyBody}, {Pie}) :
       ServeUnder(r, DeleteRecipe(r, recipes), secret)

EnvDebug ==
  /\ Idle
  /\ \E secret \in Secrets : \E r \in EnvEnvelopes("GET /debug/sentry", {EmptyBody}, {NoString}) :
       ServeUnder(r, DebugSentry(r, recipes), secret)

EnvUnknown ==
  /\ Idle
  /\ \E secret \in Secrets : \E r \in EnvEnvelopes("GET /nowhere", {EmptyBody}, {NoString}) :
       ServeUnder(r, Outcome(notFoundHandler, recipes, <<>>), secret)

NextEnv ==
  \/ EnvCalculate
  \/ EnvSave
  \/ EnvList
  \/ EnvGet
  \/ EnvUpdate
  \/ EnvDelete
  \/ EnvDebug
  \/ EnvUnknown
  \/ ResponseSent

SpecEnv == Init /\ [][NextEnv]_vars

(***************************************************************************)
(* What the properties speak of                                            *)
(***************************************************************************)
\* a request has been answered and its response is not yet sent
Answered == req # <<>>

\* the request got past the rate limiter and the body parser
Parsed == Answered /\ ~req[1].limited /\ req[1].parse = "ok"

\* the request carries the configured key
Keyed == Answered /\ req[1].key = API_KEY

\* the request reached the handler of the route
AdmittedTo(route) == Parsed /\ Keyed /\ req[1].route = route

\* the request's body passes saveRecipeSchema / calculateCostSchema
BodyValid == calculateCostSchema(req[1].body).details = <<>>

\* the body as the schema converts it
BodyValue == calculateCostSchema(req[1].body).value

NamesOf(coll) == {coll[i].recipe_name : i \in 1..Len(coll)}

Count(coll, name) == Cardinality({i \in 1..Len(coll) : coll[i].recipe_name = name})

\* the position of the recipe called name in a collection holding it once
PositionOf(coll, name) == CHOOSE i \in 1..Len(coll) : coll[i].recipe_name = name

C2_UniqueNames ==
  \A i, j \in 1..Len(recipes) : recipes[i].recipe_name = recipes[j].recipe_name => i = j

\* an update that would have given two recipes one name has been refused
C2_Witness ==
  /\ AdmittedTo("PUT /recipes/:name")
  /\ BodyValid
  /\ req[1].name \in NamesOf(before)
  /\ BodyValue.recipe_name \in NamesOf(before) \ {req[1].name}
  /\ resp[1].status = 409
  /\ Len(recipes) = 2

\* C3: DELETE /recipes/:name, and PUT /recipes/:name with a valid body, for
\* a name that is not in the collection answer 404 and leave the
\* collection as it was.
C3_MissingNotFound ==
  /\ AdmittedTo("DELETE /recipes/:name") /\ req[1].name \notin NamesOf(before) =>
       resp[1].status = 404 /\ recipes = before
  /\ AdmittedTo("PUT /recipes/:name") /\ BodyValid /\ req[1].name \notin NamesOf(before) =>
       resp[1].status = 404 /\ recipes = before

\* an update of a name the collection does not hold, among recipes it holds
C3_Witness ==
  /\ AdmittedTo("PUT /recipes/:name")
  /\ BodyValid
  /\ before # <<>>
  /\ req[1].name \notin NamesOf(before)
  /\ resp[1].status = 404

\* the recipe_name, servings and ingredients of a body as the client sent them
SentRecipe(body) ==
  [recipe_name |-> body.recipe_name.v,
   servings    |-> body.servings.n,
   ingredients |-> [i \in 1..Len(body.ingredients.items) |->
                      [name      |-> body.ingredients.items[i].name.v,
                       quantity  |-> body.ingredients.items[i].quantity.n,
                       unit      |-> body.ingredients.items[i].unit.v,
                       unit_cost |-> body.ingredients.items[i].unit_cost.n]]]

\* the recipe_name, servings and ingredients of a body as the schema converts them
ConvertedRecipe(value) ==
  [recipe_name |-> value.recipe_name,
   servings    |-> value.servings,
   ingredients |-> value.ingredients]

\* a PUT has replaced the recipe called req[1].name by the recipe doc
ReplacedBy(doc) ==
  /\ recipes = [before EXCEPT ![PositionOf(before, req[1].name)] = doc]
  /\ resp[1].docs = <<doc>>

\* C4 as stated: after a successful PUT /recipes/:name the stored recipe has
\* exactly the recipe_name, servings and ingredients of the request body,
\* and nothing else.
C4_ReplacedBySentBody ==
  AdmittedTo("PUT /recipes/:name") /\ resp[1].status = 200 =>
    ReplacedBy(SentRecipe(req[1].body))

\* C4, amended: after a successful PUT /recipes/:name the stored recipe has
\* exactly the recipe_name, servings and ingredients of the request body as
\* the schema converts it (each unit_cost rounded to 4 decimals), nothing
\* of the previous recipe remains, and the other recipes are as they were.
C4_ReplacedByValidatedBody ==
  AdmittedTo("PUT /recipes/:name") /\ resp[1].status = 200 =>
    ReplacedBy(ConvertedRecipe(BodyValue))

\* an update has replaced a recipe by one with other servings and
\* ingredients, among them a unit_cost the schema rounds
C4_Witness ==
  /\ AdmittedTo("PUT /recipes/:name")
  /\ resp[1].status = 200
  /\ LET at == PositionOf(before, req[1].name)
     IN  /\ recipes[at].servings # before[at].servings
         /\ Len(recipes[at].ingredients) # Len(before[at].ingredients)
         /\ recipes[at] # SentRecipe(req[1].body)

(***************************************************************************)
(* The key (specification Spec)                                            *)
(***************************************************************************)
\* the routes after app.use(requireApiKey) that C5 names
ProtectedRoutes ==
  {"POST /calculate-cost", "POST /save-recipe", "GET /recipes", "GET /recipes/:name",
   "PUT /recipes/:name", "DELETE /recipes/:name"}

\* the request is for a protected route and its key is missing or wrong
Unkeyed == Answered /\ ~Keyed /\ req[1].route \in ProtectedRoutes

\* the request neither read nor changed the collection
Untouched == ops = <<>> /\ recipes = before

\* C5 as stated: a request to a protected route whose key is missing or
\* wrong is answered 401, whatever its body or query, and neither reads
\* nor changes the collection.
C5_UnkeyedIs401 == Unkeyed => resp[1].status = 401 /\ Untouched

\* C5, amended: a request to a protected route whose key is missing or
\* wrong neither reads nor changes the collection; it is answered 401
\* unless the rate limiter (429) or the body parser (400 for a body that is
\* not JSON, 413 for one over the limit) has answered it before.
C5_UnkeyedIsRefused ==
  Unkeyed =>
    /\ Untouched
    /\ resp[1].status =
         IF req[1].limited THEN 429
         ELSE IF req[1].parse = "malformed" THEN 400
         ELSE IF req[1].parse = "tooLarge" THEN 413
         ELSE 401

\* a save with a valid body and a wrong key, refused among recipes
C5_Witness ==
  /\ Unkeyed
  /\ Parsed
  /\ req[1].route = "POST /save-recipe"
  /\ req[1].key = "wrong"
  /\ BodyValid
  /\ before # <<>>
  /\ resp[1].status = 401
  /\ Untouched

\* the request got to the routes without the configured key
ParsedWithoutKey == Parsed /\ ~Keyed

\* C6 as stated: GET / is the only route that answers without a valid key.
C6_OnlyHealthIsOpen ==
  ParsedWithoutKey => (resp[1].status # 401 <=> req[1].route = "GET /")

\* C6, amended: GET /, GET /openapi.json and /api-docs are the only routes
\* that answer without a valid key; every other route answers 401.
C6_OnlyHealthAndDocsAreOpen ==
  ParsedWithoutKey =>
    (resp[1].status # 401 <=> req[1].route \in {"GET /", "GET /openapi.json", "/api-docs"})

\* the OpenAPI document has been served to a request without a key
C6_Witness ==
  /\ ParsedWithoutKey
  /\ req[1].key = ""
  /\ req[1].route = "GET /openapi.json"
  /\ resp[1].status = 200

(***************************************************************************)
(* The calculator (specification SpecCalc)                                 *)
(***************************************************************************)
\* x < 0
Negative(x) == x.k # "nan" /\ x.s = 1 /\ ~FIsZero(x)

\* the defects C7 lists outside the ingredients: recipe_name missing,
\* servings missing, not an integer or below 1, ingredients no array or empty
HeadDefect(body) ==
  \/ body.recipe_name.t = "absent"
  \/ body.servings.t = "absent"
  \/ body.servings.t = "num"
       /\ (~FIsSafeInteger(body.servings.n) \/ ~FAtLeastOne(body.servings.n))
  \/ body.ingredients.t # "array"
  \/ body.ingredients.items = <<>>

\* the ingredient lacks name, quantity, unit or unit_cost, or its quantity is <= 0
ItemDefect(item) ==
  \/ item.name.t = "absent"
  \/ item.quantity.t = "absent"
  \/ item.unit.t = "absent"
  \/ item.unit_cost.t = "absent"
  \/ item.quantity.t = "num" /\ ~FPositive(item.quantity.n)

\* the unit_cost the client sent is < 0
SentCostNegative(item) == item.unit_cost.t = "num" /\ Negative(item.unit_cost.n)

\* the unit_cost is < 0 once rounded to 4 decimals
RoundedCostNegative(item) ==
  item.unit_cost.t = "num" /\ Negative(Precision4(item.unit_cost.n))

\* the request was refused with 400 and without a calculation
Refused == resp[1].status = 400 /\ resp[1].calc = <<>>

\* the response carries a calculation
Calculated == resp[1].status = 200 /\ resp[1].calc # <<>>

\* C7 as stated: POST /calculate-cost answers 400 whenever the body has one
\* of the listed defects, a unit_cost < 0 among them, and returns a
\* calculation only when it has none.
C7_DefectsRefused ==
  AdmittedTo("POST /calculate-cost") =>
    LET body   == req[1].body
        defect == \/ HeadDefect(body)
                  \/ \E i \in 1..Len(body.ingredients.items) :
                       \/ ItemDefect(body.ingredients.items[i])
                       \/ SentCostNegative(body.ingredients.items[i])
    IN  /\ defect => Refused
        /\ resp[1].calc # <<>> => Calculated /\ ~defect

\* C7, amended: POST /calculate-cost answers 400 whenever recipe_name is
\* missing, servings is missing, not an integer or below 1, ingredients is
\* not an array or is empty, or an ingredient lacks name, quantity, unit or
\* unit_cost, has a quantity <= 0 or has a unit_cost that is < 0 once
\* rounded to 4 decimals; it returns a calculation only when none of these
\* holds.
C7_RoundedDefectsRefused ==
  AdmittedTo("POST /calculate-cost") =>
    LET body   == req[1].body
        defect == \/ HeadDefect(body)
                  \/ \E i \in 1..Len(body.ingredients.items) :
                       \/ ItemDefect(body.ingredients.items[i])
                       \/ RoundedCostNegative(body.ingredients.items[i])
    IN  /\ defect => Refused
        /\ resp[1].calc # <<>> => Calculated /\ ~defect

\* a body whose only defect is a unit_cost of -0.0001 has been refused
C7_Witness ==
  /\ AdmittedTo("POST /calculate-cost")
  /\ ~HeadDefect(req[1].body)
  /\ \E i \in 1..Len(req[1].body.ingredients.items) :
       /\ RoundedCostNegative(req[1].body.ingredients.items[i])
       /\ req[1].body.ingredients.items[i].unit_cost.n = Dec(-1, 4)
  /\ Refused

\* the cost per serving of the validated value
UnroundedCostPerServing(value) == FDiv(TotalCost(value.ingredients), value.servings)

\* the suggested price printed in the response is costPerServing * multiplier
PricedWith(multiplier) ==
  resp[1].calc[1].suggested_price_per_serving
    = ToFixed2(FMul(UnroundedCostPerServing(BodyValue), multiplier))

\* the multiplier C8 expects for a valid body: 3 when markup_multiplier is
\* omitted, the given value otherwise
ThreeWhenOmitted ==
  IF req[1].body.markup_multiplier.t = "absent"
  THEN FFromInt(3) ELSE req[1].body.markup_multiplier.n

\* the body gives a markup_multiplier <= 0
MarkupNotPositive ==
  req[1].body.markup_multiplier.t = "num" /\ ~FPositive(req[1].body.markup_multiplier.n)

Exact(n, e) == [n |-> n, e |-> e]

\* the sum of two of them
ExactAdd(a, b) ==
  IF a.n = <<>> THEN b
  ELSE IF b.n = <<>> THEN a
  ELSE IF a.e <= b.e THEN Exact(BAdd(a.n, BShl(b.n, b.e - a.e)), a.e)
  ELSE Exact(BAdd(BShl(a.n, a.e - b.e), b.n), b.e)

RECURSIVE ExactSum(_)
\* the sum of quantity * unit_cost over the ingredients, in exact arithmetic
ExactSum(ingredients) ==
  IF ingredients = <<>> THEN Exact(<<>>, 0)
  ELSE ExactAdd(Exact(BMul(Head(ingredients).quantity.m, Head(ingredients).unit_cost.m),
                      Head(ingredients).quantity.e + Head(ingredients).unit_cost.e),
                ExactSum(Tail(ingredients)))

\* that sum in hundredths, rounded to the nearest, halves upwards
ExactCents(ingredients) ==
  LET x == ExactSum(ingredients)
  IN  IF x.e >= 0 THEN BToInt(BShl(BMulSmall(x.n, 100), x.e))
      ELSE BToInt(HalfUp(BMulSmall(x.n, 100), -x.e))

RECURSIVE SumInOrder(_, _)
\* the binary64 sum of the first n products, each added to the sum of those before it
SumInOrder(ingredients, n) ==
  IF n = 0 THEN FZero
  ELSE FAdd(SumInOrder(ingredients, n - 1),
            FMul(ingredients[n].quantity, ingredients[n].unit_cost))

\* the orders of n ingredients
Orders(n) == {p \in [1..n -> 1..n] : \A i, j \in 1..n : p[i] = p[j] => i = j}

\* the ingredients in the order p
InOrder(ingredients, p) == [i \in 1..Len(ingredients) |-> ingredients[p[i]]]

\* the total_cost, in hundredths, the handler prints for these ingredients
PrintedTotal(ingredients) == ToFixed2(TotalCost(ingredients)).c

\* two numbers of hundredths are 0.01 apart at most
WithinOneCent(a, b) == a - b \in {-1, 0, 1}

Printed(x) == FDiv(FFromInt(ToFixed2(x).c), FFromInt(100))

\* C10: for every accepted request cost_per_serving is total_cost / servings
\* with the total not rounded before the division (the quotient is then
\* rounded to 2 decimals); a request whose servings is <= 0 is refused with
\* 400 and gets no cost figures.
C10_CostPerServingOfUnroundedTotal ==
  AdmittedTo("POST /calculate-cost") =>
    /\ Calculated =>
         LET value == BodyValue IN
         /\ FAtLeastOne(value.servings)
         /\ resp[1].calc[1].cost_per_serving
              = ToFixed2(FDiv(SumInOrder(value.ingredients, Len(value.ingredients)),
                              value.servings))
    /\ req[1].body.servings.t = "num" /\ ~FPositive(req[1].body.servings.n) => Refused

\* a calculation whose cost_per_serving is not the one the rounded total would give
C10_Witness ==
  /\ AdmittedTo("POST /calculate-cost")
  /\ Calculated
  /\ LET value == BodyValue IN
     /\ resp[1].calc[1].cost_per_serving = ToFixed2(UnroundedCostPerServing(value))
     /\ resp[1].calc[1].cost_per_serving
          # ToFixed2(FDiv(Printed(TotalCost(value.ingredients)), value.servings))

\* the figures of the response are those computed from costPerServing, not rounded
FiguresOf(costPerServing, suggestedPrice) ==
  /\ resp[1].calc[1].suggested_price_per_serving = ToFixed2(suggestedPrice)
  /\ resp[1].calc[1].profit_margin_per_serving = ToFixed2(FSub(suggestedPrice, costPerServing))
  /\ resp[1].calc[1].food_cost_percent
       = ToFixed2(FMul(FDiv(costPerServing, suggestedPrice), FFromInt(100)))

\* C11: for every accepted request suggested_price is cost_per_serving x
\* multiplier, profit_margin is suggested_price - cost_per_serving and
\* food_cost_percent is (cost_per_serving / suggested_price) x 100, each
\* computed from the intermediate values before they are rounded, and only
\* then rounded to 2 decimals.
C11_FiguresFromUnrounded ==
  AdmittedTo("POST /calculate-cost") /\ Calculated =>
    LET costPerServing == UnroundedCostPerServing(BodyValue) IN
    FiguresOf(costPerServing, FMul(costPerServing, ThreeWhenOmitted))

\* a calculation whose profit margin is not the difference of the printed
\* suggested price and the printed cost per serving
C11_Witness ==
  /\ AdmittedTo("POST /calculate-cost")
  /\ Calculated
  /\ LET costPerServing == UnroundedCostPerServing(BodyValue) IN
     FiguresOf(costPerServing, FMul(costPerServing, ThreeWhenOmitted))
  /\ resp[1].calc[1].profit_margin_per_serving.c
       # resp[1].calc[1].suggested_price_per_serving.c - resp[1].calc[1].cost_per_serving.c

\* the numeric fields of a calculation
Figures(calc) ==
  {calc.total_cost, calc.cost_per_serving, calc.suggested_price_per_serving,
   calc.profit_margin_per_serving, calc.food_cost_percent}

\* C12: every numeric field of a /calculate-cost result is a number rounded
\* to 2 decimal places: it is a number (not null) and, multiplied by 100, a
\* whole number.
C12_FiguresAreRounded ==
  AdmittedTo("POST /calculate-cost") /\ Calculated =>
    \A f \in Figures(resp[1].calc[1]) : ~f.null /\ f.c \in Int

\* the request asks for 2 servings of one ingredient, quantity 2 at unit_cost
\* 1.5, and gives no markup_multiplier
ExampleAsked ==
  /\ req[1].body.servings = JNum(FFromInt(2))
  /\ req[1].body.markup_multiplier.t = "absent"
  /\ req[1].body.ingredients.t = "array"
  /\ Len(req[1].body.ingredients.items) = 1
  /\ req[1].body.ingredients.items[1].quantity = JNum(FFromInt(2))
  /\ req[1].body.ingredients.items[1].unit_cost = JNum(Dec(15, 1))

\* the request also names the recipe, the ingredient and its unit
ExampleNamed ==
  /\ req[1].body.recipe_name.t = "str"
  /\ req[1].body.recipe_name.v # NoString
  /\ req[1].body.ingredients.items[1].name.t = "str"
  /\ req[1].body.ingredients.items[1].name.v # NoString
  /\ req[1].body.ingredients.items[1].unit.t = "str"
  /\ req[1].body.ingredients.items[1].unit.v # NoString

\* total_cost 3.00, cost_per_serving 1.50, suggested_price 4.50,
\* profit_margin 3.00, food_cost_percent 33.33
ExampleFigures ==
  /\ Calculated
  /\ \A f \in Figures(resp[1].calc[1]) : ~f.null
  /\ resp[1].calc[1].total_cost.c = 300
  /\ resp[1].calc[1].cost_per_serving.c = 150
  /\ resp[1].calc[1].suggested_price_per_serving.c = 450
  /\ resp[1].calc[1].profit_margin_per_serving.c = 300
  /\ resp[1].calc[1].food_cost_percent.c = 3333

\* C13 as stated: a request with ingredients [{quantity: 2, unit_cost: 1.5}],
\* servings 2 and no multiplier yields total_cost 3.00, cost_per_serving
\* 1.50, suggested_price 4.50, profit_margin 3.00 and food_cost_percent 33.33.
C13_ExampleYieldsFigures ==
  AdmittedTo("POST /calculate-cost") /\ ExampleAsked => ExampleFigures

\* C13, amended: such a request yields these figures when it also gives a
\* recipe_name and the ingredient's name and unit; without them it is
\* refused with 400.
C13_NamedExampleYieldsFigures ==
  AdmittedTo("POST /calculate-cost") /\ ExampleAsked =>
    IF ExampleNamed THEN ExampleFigures ELSE Refused

\* the example with the names has been answered with the figures
C13_Witness ==
  /\ AdmittedTo("POST /calculate-cost")
  /\ ExampleAsked
  /\ ExampleNamed
  /\ ExampleFigures

(***************************************************************************)
(* The calculator among the writes (specification SpecPure)                *)
(***************************************************************************)
\* the request being answered has the body of the calculation remembered
SeenAgain ==
  /\ AdmittedTo("POST /calculate-cost")
  /\ seen # <<>>
  /\ seen[1].body = req[1].body

\* C14: POST /calculate-cost never reads or changes the recipe collection,
\* and a request with the body of an earlier one gets the result the
\* earlier one got, whatever was saved, updated or deleted in between.
C14_CalculatorIsPure ==
  /\ Answered /\ req[1].route = "POST /calculate-cost" => Untouched
  /\ SeenAgain => resp[1] = seen[1].resp

\* a body is calculated again with the same result after its recipe_name,
\* not stored the first time, has been saved
C14_Witness ==
  /\ SeenAgain
  /\ resp[1].status = 200
  /\ resp[1] = seen[1].resp
  /\ ~seen[1].stored
  /\ req[1].body.recipe_name.v \in NamesOf(recipes)
  /\ Untouched

(***************************************************************************)
(* Reading recipes (specification Spec)                                    *)
(***************************************************************************)
\* the positions of the recipes whose recipe_name is the name asked for,
\* letter for letter
NamedExactly(name) == {i \in 1..Len(recipes) : recipes[i].recipe_name = name}

\* C15: GET /recipes/:name returns the stored recipe whose recipe_name
\* equals the path name exactly (same case, whole string) when there is
\* one, answers 404 otherwise, and never changes the collection.
C15_GetByExactName ==
  AdmittedTo("GET /recipes/:name") =>
    /\ recipes = before
    /\ IF NamedExactly(req[1].name) = {}
       THEN resp[1].status = 404 /\ resp[1].docs = <<>>
       ELSE /\ resp[1].status = 200
            /\ \E i \in NamedExactly(req[1].name) : resp[1].docs = <<recipes[i]>>

\* Pie and pie are stored and pie has been asked for and returned
C15_Witness ==
  /\ AdmittedTo("GET /recipes/:name")
  /\ req[1].name = pie
  /\ {Pie, pie} \subseteq NamesOf(recipes)
  /\ resp[1].status = 200
  /\ Len(resp[1].docs) = 1
  /\ resp[1].docs[1].recipe_name = pie

\* s contains sub, letter for letter but for the case
ContainsFolded(s, sub) ==
  \E i \in 1..(Len(s) - Len(sub) + 1) :
    \A k \in 1..Len(sub) : Fold(s[i + k - 1]) = Fold(sub[k])

\* the recipe matches the query as C16 says: by substrings
MatchesBySubstring(doc, query) ==
  /\ query.name = <<>> \/ ContainsFolded(doc.recipe_name, query.name[1])
  /\ \/ query.ingredient = <<>>
     \/ \E k \in 1..Len(doc.ingredients) :
          ContainsFolded(doc.ingredients[k].name, query.ingredient[1])

\* C16: GET /recipes matches a recipe exactly when (name is absent or the
\* recipe_name contains name as a case-insensitive substring) and
\* (ingredient is absent or some ingredient's name contains ingredient as a
\* case-insensitive substring): the total is the number of such recipes
\* and every recipe returned is one of them.
C16_FilterBySubstring ==
  AdmittedTo("GET /recipes") /\ resp[1].status = 200 =>
    /\ resp[1].total
         = Cardinality({i \in 1..Len(recipes) : MatchesBySubstring(recipes[i], req[1].query)})
    /\ \A k \in 1..Len(resp[1].docs) : MatchesBySubstring(resp[1].docs[k], req[1].query)

(***************************************************************************)
(* The error handler (specification SpecErr)                               *)
(***************************************************************************)
\* an error has reached the error handler
Raised == Answered /\ req[1].route = "next(err)"

\* C17 as stated: the error handler answers 409 for a duplicate-key error,
\* 400 for a validation error, and 500 for every other error.
C17_OtherErrorsAre500 ==
  Raised =>
    resp[1].status = IF req[1].err.code = 11000 THEN 409
                     ELSE IF req[1].err.isJoi THEN 400
                     ELSE 500

\* C17, amended: the error handler answers 409 for a duplicate-key error,
\* 400 for a validation error, and for every other error the status the
\* error carries (400 and 413 from the body parser), 500 when it carries none.
C17_OtherErrorsKeepTheirStatus ==
  Raised =>
    resp[1].status = IF req[1].err.code = 11000 THEN 409
                     ELSE IF req[1].err.isJoi THEN 400
                     ELSE IF req[1].err.status # 0 THEN req[1].err.status
                     ELSE 500

\* the error of a body over the limit has been answered 413
C17_Witness ==
  /\ Raised
  /\ req[1].err = EntityTooLarge
  /\ resp[1].status = 413

(***************************************************************************)
(* The stored recipes (specification Spec)                                 *)
(***************************************************************************)
\* the number is finite and > 0
StoredPositive(x) == x.k = "fin" /\ x.s = 0 /\ x.m # <<>>

\* the number is a whole number >= 1
StoredWholeAtLeastOne(x) == StoredPositive(x) /\ x.e >= 0

\* the number is finite and >= 0
StoredNotNegative(x) == x.k = "fin" /\ (x.s = 0 \/ x.m = <<>>)

\* the document satisfies the data model of a recipe
WellFormed(doc) ==
  /\ StoredWholeAtLeastOne(doc.servings)
  /\ doc.ingredients # <<>>
  /\ \A k \in 1..Len(doc.ingredients) :
       /\ doc.ingredients[k].name # NoString
       /\ doc.ingredients[k].unit # NoString
       /\ StoredPositive(doc.ingredients[k].quantity)
       /\ StoredNotNegative(doc.ingredients[k].unit_cost)

\* C18: every recipe in the collection, after any sequence of save and
\* update requests, has servings a whole number >= 1, at least one
\* ingredient, and in every ingredient a name, a unit, a quantity > 0 and a
\* unit_cost >= 0.
C18_StoredRecipesWellFormed == \A i \in 1..Len(recipes) : WellFormed(recipes[i])

\* a body with unit_cost -0.00001 has been saved, its unit_cost stored as 0,
\* next to a recipe written by an update
C18_Witness ==
  /\ Len(recipes) = 2
  /\ \E i \in 1..Len(recipes) : recipes[i].ingredients[1].unit_cost = FZero
  /\ AdmittedTo("PUT /recipes/:name")
  /\ resp[1].status = 200
  /\ recipes # before

(***************************************************************************)
(* Deleting for good (specification Spec)                                  *)
(***************************************************************************)
\* the documents of a collection
DocsOf(coll) == {coll[i] : i \in 1..Len(coll)}

\* C19: there is no soft-delete.  A successful DELETE /recipes/:name takes
\* the recipe out of the collection and leaves the others; and for a name
\* that is not in the collection, as after its deletion, GET /recipes/:name
\* answers 404, no GET /recipes result holds a recipe that is not in the
\* collection, and a POST /save-recipe with a valid body of that name is
\* answered 201 and stores it.
C19_NoSoftDelete ==
  /\ AdmittedTo("DELETE /recipes/:name") /\ resp[1].status = 200 =>
       /\ req[1].name \in NamesOf(before)
       /\ req[1].name \notin NamesOf(recipes)
       /\ DocsOf(recipes) = {d \in DocsOf(before) : d.recipe_name # req[1].name}
  /\ AdmittedTo("GET /recipes/:name") /\ req[1].name \notin NamesOf(before) =>
       resp[1].status = 404 /\ resp[1].docs = <<>>
  /\ AdmittedTo("GET /recipes") =>
       \A k \in 1..Len(resp[1].docs) : resp[1].docs[k] \in DocsOf(recipes)
  /\ AdmittedTo("POST /save-recipe") /\ req[1].body.recipe_name.t = "str"
       /\ req[1].body.recipe_name.v \notin NamesOf(before) /\ resp[1].status # 400 =>
       /\ resp[1].status = 201
       /\ req[1].body.recipe_name.v \in NamesOf(recipes)

\* one of two recipes has been deleted and is gone from the collection
C19_Witness ==
  /\ AdmittedTo("DELETE /recipes/:name")
  /\ resp[1].status = 200
  /\ Len(before) = 2
  /\ Len(recipes) = 1
  /\ req[1].name \notin NamesOf(recipes)

(***************************************************************************)
(* Concurrent saves (specification SpecConc)                               *)
(***************************************************************************)
\* every handler in flight has answered
AllAnswered == req # <<>> /\ \A i \in 1..Len(req) : req[i].pc = "done"

\* the handlers in flight that save a valid body with this recipe_name
SaversOf(name) ==
  {i \in 1..Len(req) : req[i].doc # <<>> /\ req[i].doc[1].recipe_name = name}

\* the names that were not in the collection when the handlers arrived and
\* that at least two of them save
ContendedNames ==
  {n \in Names : n \notin NamesOf(before) /\ Cardinality(SaversOf(n)) >= 2}

\* C20: when POST /save-recipe requests with the same new recipe_name are
\* handled concurrently, once all have answered exactly one has been
\* answered 201 and every other one 409, and the collection holds exactly
\* one recipe of that name.
C20_OneConcurrentSaveWins ==
  AllAnswered =>
    \A n \in ContendedNames :
      /\ Cardinality({i \in SaversOf(n) : resp[i][1].status = 201}) = 1
      /\ \A i \in SaversOf(n) : resp[i][1].status \in {201, 409}
      /\ Count(recipes, n) = 1

\* two handlers saved the same new name; the one that arrived first was
\* overtaken at the insert and answered 409, the other 201
C20_Witness ==
  /\ AllAnswered
  /\ Len(req) = 2
  /\ ContendedNames # {}
  /\ resp[1][1].status = 409
  /\ resp[2][1].status = 201

(***************************************************************************)
(* The pages of GET /recipes (specification SpecList)                      *)
(***************************************************************************)
\* the positions of the recipes of coll that the query's filter matches
Matching(coll, query) ==
  {i \in 1..Len(coll) : MatchesFilter(coll[i], query.name, query.ingredient)}

\* the k-th smallest of a set of positions
Nth(positions, k) ==
  CHOOSE i \in positions : Cardinality({j \in positions : j <= i}) = k

\* the page and the limit asked for, 1 and 10 when left out
AskedPage(query) == IF query.page = <<>> THEN 1 ELSE query.page[1]
AskedLimit(query) == IF query.limit = <<>> THEN 10 ELSE query.limit[1]

\* how many of total recipes fall on positions (p-1)*l+1 .. p*l
OnPage(total, p, l) ==
  IF total <= (p - 1) * l THEN 0
  ELSE IF total < p * l THEN total - (p - 1) * l
  ELSE l

\* the matching recipes at positions (p-1)*l+1 .. p*l of the store's order
PageOfMatching(coll, query, p, l) ==
  [k \in 1..OnPage(Cardinality(Matching(coll, query)), p, l) |->
     coll[Nth(Matching(coll, query), (p - 1) * l + k)]]

\* the least n with n * l >= total
CeilOf(total, l) == CHOOSE n \in 0..total : n * l >= total /\ (n = 0 \/ (n - 1) * l < total)

\* the data of the page p of the list the request asked for
DataOfPage(p) == GetRecipes([req[1] EXCEPT !.query.page = <<p>>], before).resp.docs

\* a list request has been answered with a page
Listed == AdmittedTo("GET /recipes") /\ resp[1].status = 200

\* C21: with one request at a time, GET /recipes with page p and limit l
\* (1 and 10 when left out) answers with the matching recipes at positions
\* (p-1)*l+1 .. p*l of the collection's order, total the number of matching
\* recipes and pages = ceil(total / l); the pages 1..pages hold every
\* matching recipe exactly once and every later page is empty.
C21_PagesPartitionMatching ==
  AdmittedTo("GET /recipes") =>
    LET p == AskedPage(req[1].query)
        l == AskedLimit(req[1].query)
        M == Matching(before, req[1].query)
    IN  /\ resp[1].status = 200
        /\ resp[1].docs = PageOfMatching(before, req[1].query, p, l)
        /\ resp[1].total = Cardinality(M)
        /\ resp[1].page = p
        /\ resp[1].pages = CeilOf(Cardinality(M), l)
        /\ \A i \in M :
             Cardinality({pk \in (1..resp[1].pages) \X (1..l) :
                            /\ pk[2] <= Len(DataOfPage(pk[1]))
                            /\ DataOfPage(pk[1])[pk[2]] = before[i]}) = 1
        /\ \A later \in (resp[1].pages + 1)..(resp[1].pages + 2) : DataOfPage(later) = <<>>

\* the second page of two recipes matching an ingredient filter, one to a
\* page, has been answered
C21_Witness ==
  /\ Listed
  /\ req[1].query.page = <<2>>
  /\ req[1].query.limit = <<1>>
  /\ req[1].query.ingredient = <<<<"o", "i">>>>
  /\ Len(before) = 2
  /\ resp[1].total = 2
  /\ resp[1].pages = 2
  /\ resp[1].docs = <<before[2]>>

(***************************************************************************)
(* Listing among concurrent writes (specification SpecRace)                *)
(***************************************************************************)
\* the handler of GET /recipes has answered with a page
PageAnswered == req # <<>> /\ req[1].pc = "done" /\ resp[1].status = 200

\* C22: in every GET /recipes response, also when saves and deletes are
\* performed while it is handled, data holds at most total recipes, and
\* data is not empty only if page <= pages.
C22_DataWithinTotal ==
  PageAnswered =>
    /\ Len(resp[1].docs) <= resp[1].total
    /\ resp[1].docs # <<>> => resp[1].page <= resp[1].pages

(***************************************************************************)
(* Refused and successful writes (specification Spec)                      *)
(***************************************************************************)
\* the request reached the handler of POST /save-recipe or PUT /recipes/:name
WriteAdmitted == AdmittedTo("POST /save-recipe") \/ AdmittedTo("PUT /recipes/:name")

\* every message is about a field of the body
FieldLevel(details) ==
  \A k \in 1..Len(details) :
    details[k].key \in {"recipe_name", "servings", "ingredients", "markup_multiplier",
                        "ingredients.name", "ingredients.quantity", "ingredients.unit",
                        "ingredients.unit_cost"}

\* C23: a POST /save-recipe or PUT /recipes/:name whose body fails
\* validation is answered 400 with the list of the field-level messages and
\* neither reads nor changes the collection; for PUT whether the named
\* recipe exists or not.
C23_InvalidBodyRefused ==
  WriteAdmitted =>
    LET validated == saveRecipeSchema(req[1].body) IN
    validated.details # <<>> =>
      /\ resp[1].status = 400
      /\ resp[1].details = validated.details
      /\ FieldLevel(resp[1].details)
      /\ Untouched

\* an update of a missing name with an invalid body has been answered 400,
\* the collection holding other recipes
C23_Witness ==
  /\ AdmittedTo("PUT /recipes/:name")
  /\ ~BodyValid
  /\ before # <<>>
  /\ req[1].name \notin NamesOf(before)
  /\ resp[1].status = 400
  /\ Len(resp[1].details) >= 1

\* the collections differ at most at position at, which both have
SameButAt(coll, other, at) ==
  /\ Len(coll) = Len(other)
  /\ \A i \in 1..Len(coll) : i # at => coll[i] = other[i]

\* coll is other without its document at position at
SameWithout(coll, other, at) ==
  /\ Len(coll) = Len(other) - 1
  /\ \A i \in 1..Len(coll) : coll[i] = IF i < at THEN other[i] ELSE other[i + 1]

\* C24: a successful DELETE or PUT on name N changes only the recipe named
\* N, every other recipe of the collection being the same before and after;
\* a GET request changes no recipe.
C24_OnlyTheNamedRecipeChanges ==
  /\ AdmittedTo("PUT /recipes/:name") /\ resp[1].status = 200 =>
       /\ req[1].name \in NamesOf(before)
       /\ SameButAt(recipes, before, PositionOf(before, req[1].name))
  /\ AdmittedTo("DELETE /recipes/:name") /\ resp[1].status = 200 =>
       /\ req[1].name \in NamesOf(before)
       /\ SameWithout(recipes, before, PositionOf(before, req[1].name))
  /\ Answered /\ req[1].route \in {"GET /", "GET /openapi.json", "/api-docs", "GET /recipes",
                                   "GET /recipes/:name", "GET /debug/sentry", "GET /nowhere"} =>
       recipes = before

\* the first of two recipes has been deleted and the second is as it was
C24_Witness ==
  /\ AdmittedTo("DELETE /recipes/:name")
  /\ resp[1].status = 200
  /\ Len(before) = 2
  /\ before[1].recipe_name = req[1].name
  /\ recipes = <<before[2]>>

\* the answer of GET /recipes/:name for name, asked right after the request
GetAfterwards(name) == GetRecipe([req[1] EXCEPT !.name = name], recipes).resp

\* GET /recipes/:name for name returns the recipe the update answered with
FoundUnder(name) ==
  /\ GetAfterwards(name).status = 200
  /\ GetAfterwards(name).docs = resp[1].docs

\* an update has succeeded
PutSucceeded == AdmittedTo("PUT /recipes/:name") /\ resp[1].status = 200

\* C25 as stated: after a successful PUT /recipes/:name the updated recipe
\* is found under the path name, whatever recipe_name the body carries.
C25_FoundUnderPathName == PutSucceeded => FoundUnder(req[1].name)

\* C25, amended: after a successful PUT /recipes/:name the updated recipe
\* is found under the recipe_name its body carries; it is found under the
\* path name exactly when the body carries the path name, and otherwise
\* GET /recipes/:name with the path name answers 404.
C25_FoundUnderBodyName ==
  PutSucceeded =>
    LET named == saveRecipeSchema(req[1].body).value.recipe_name IN
    /\ FoundUnder(named)
    /\ named # req[1].name => GetAfterwards(req[1].name).status = 404

\* an update has renamed a recipe: it is found under the body's name and
\* the path name is not found
C25_Witness ==
  /\ PutSucceeded
  /\ req[1].body.recipe_name.v # req[1].name
  /\ FoundUnder(req[1].body.recipe_name.v)
  /\ GetAfterwards(req[1].name).status = 404
  /\ Len(recipes) = 2

\* an update of a stored recipe whose body carries the name of another
\* stored recipe has reached the handler
PutOntoAnother ==
  /\ AdmittedTo("PUT /recipes/:name")
  /\ BodyValid
  /\ req[1].name \in NamesOf(before)
  /\ req[1].body.recipe_name.v \in NamesOf(before) \ {req[1].name}

\* C26: a PUT /recipes/:name on an existing name N whose body carries the
\* recipe_name of a different existing recipe M is answered 409 and leaves
\* both N and M unchanged.
C26_PutOntoAnotherConflicts ==
  PutOntoAnother =>
    /\ resp[1].status = 409
    /\ resp[1].error = "Recipe name already exists."
    /\ recipes = before

\* such an update has been refused, the two recipes differing in their
\* servings and the body carrying neither's
C26_Witness ==
  /\ PutOntoAnother
  /\ resp[1].status = 409
  /\ Len(recipes) = 2
  /\ recipes[1].servings # recipes[2].servings
  /\ recipes = before

(***************************************************************************)
(* The calculator's figures (specification SpecCalc)                       *)
(***************************************************************************)
\* C27: for every request that passes validation, one where every
\* unit_cost is 0 included, the five numeric outputs of /calculate-cost are
\* defined finite numbers.
C27_FiguresAreDefined ==
  AdmittedTo("POST /calculate-cost") /\ BodyValid =>
    /\ Calculated
    /\ ~resp[1].calc[1].total_cost.null
    /\ ~resp[1].calc[1].cost_per_serving.null
    /\ ~resp[1].calc[1].suggested_price_per_serving.null
    /\ ~resp[1].calc[1].profit_margin_per_serving.null
    /\ ~resp[1].calc[1].food_cost_percent.null

\* a calculation whose printed total_cost is above 0
CostCalculated ==
  /\ AdmittedTo("POST /calculate-cost")
  /\ Calculated
  /\ ~resp[1].calc[1].total_cost.null
  /\ resp[1].calc[1].total_cost.c > 0

\* 100 / multiplier rounded to 2 decimals
PercentOf(multiplier) == ToFixed2(FDiv(FFromInt(100), multiplier))

\* a and b, in hundredths, are equal or neighbours
NeighbouringCents(a, b) == a - b \in {-1, 0, 1}

\* C28 as stated: for every accepted request with total_cost > 0,
\* food_cost_percent depends only on the multiplier and is 100 / multiplier
\* rounded to 2 decimals, and profit_margin is >= 0 exactly when the
\* multiplier is >= 1.
C28_PercentOfMultiplierAlone ==
  CostCalculated =>
    /\ resp[1].calc[1].food_cost_percent = PercentOf(ThreeWhenOmitted)
    /\ ~resp[1].calc[1].profit_margin_per_serving.null
    /\ resp[1].calc[1].profit_margin_per_serving.c >= 0 <=> FAtLeastOne(ThreeWhenOmitted)

\* the multiplier is at least 0.01 and at most 10000
OrdinaryMultiplier(multiplier) ==
  /\ FAtLeastOne(FMul(multiplier, FFromInt(100)))
  /\ ~FPositive(FSub(multiplier, FFromInt(10000)))

\* C28, amended: for every accepted request with total_cost > 0 and a
\* multiplier from 0.01 to 10000, food_cost_percent is 100 / multiplier
\* rounded to 2 decimals or a neighbouring hundredth (33.33 for the default
\* multiplier), and profit_margin is >= 0 whenever the multiplier is >= 1
\* and <= 0 whenever the multiplier is <= 1.
C28_PercentNearMultiplier ==
  CostCalculated /\ OrdinaryMultiplier(ThreeWhenOmitted) =>
    /\ ~resp[1].calc[1].food_cost_percent.null
    /\ NeighbouringCents(resp[1].calc[1].food_cost_percent.c, PercentOf(ThreeWhenOmitted).c)
    /\ req[1].body.markup_multiplier.t = "absent" =>
         resp[1].calc[1].food_cost_percent.c = 3333
    /\ ~resp[1].calc[1].profit_margin_per_serving.null
    /\ FAtLeastOne(ThreeWhenOmitted) => resp[1].calc[1].profit_margin_per_serving.c >= 0
    /\ ~FPositive(FSub(ThreeWhenOmitted, FFromInt(1))) =>
         resp[1].calc[1].profit_margin_per_serving.c <= 0

\* a calculation with the multiplier 6.4 whose food_cost_percent is not
\* 100 / 6.4 rounded to 2 decimals but the hundredth next to it
C28_Witness ==
  /\ CostCalculated
  /\ OrdinaryMultiplier(ThreeWhenOmitted)
  /\ req[1].body.markup_multiplier = JNum(Dec(64, 1))
  /\ resp[1].calc[1].food_cost_percent.c # PercentOf(Dec(64, 1)).c
  /\ NeighbouringCents(resp[1].calc[1].food_cost_percent.c, PercentOf(Dec(64, 1)).c)

(***************************************************************************)
(* Requests whose store operation may fail (specification SpecFail)        *)
(***************************************************************************)
\* a request has reached a route handler
Reached == req # <<>>

\* the request has received exactly one response
AnsweredOnce == req # <<>> /\ Len(resp) = 1

\* C29: every request that reaches a route handler eventually receives
\* exactly one response, also when the store operation of save, list, get,
\* update or delete fails: none is left unanswered and none is answered
\* twice.
C29_EveryRequestAnsweredOnce ==
  /\ [](Len(resp) <= 1)
  /\ Reached ~> AnsweredOnce

(***************************************************************************)
(* The key without a secret (specification SpecEnv)                        *)
(***************************************************************************)
\* a request to a protected route, served while process.env.API_KEY is not set
UnsetProtected ==
  /\ Answered
  /\ req[1].secret = <<>>
  /\ req[1].route \in ProtectedRoutes

\* C30 as stated: when no API key secret is configured, every request to a
\* protected route is answered 401, whatever x-api-key header it sends.
C30_UnsetSecretIs401 == UnsetProtected => resp[1].status = 401

\* C30, amended: when no API key secret is configured, no x-api-key header
\* gets a request to a protected route past the key check; the request is
\* answered 401 unless the rate limiter (429) or the body parser (400 for a
\* body that is not JSON, 413 for one over the limit) has answered it before.
C30_UnsetSecretRefuses ==
  UnsetProtected =>
    resp[1].status =
      IF req[1].limited THEN 429
      ELSE IF req[1].parse = "malformed" THEN 400
      ELSE IF req[1].parse = "tooLarge" THEN 413
      ELSE 401

\* a delete of a stored recipe sending the text undefined as its key while
\* the secret is not set: refused, the recipe still stored
C30_Witness ==
  /\ UnsetProtected
  /\ Parsed
  /\ req[1].route = "DELETE /recipes/:name"
  /\ req[1].key = "undefined"
  /\ before # <<>>
  /\ resp[1].status = 401
  /\ Untouched

====
